---------------------------- MODULE Spec2Model ----------------------------
(***************************************************************************)
(* Behavioural emotion service (src/emotion-ml-service.py).                *)
(*                                                                         *)
(*   BehavioralFeatureExtractor   events -> feature vector                 *)
(*   EmotionalIntelligence        feature vector -> emotion scores,        *)
(*                                dominant emotion, confidence             *)
(*   MLEmotionService             per-session buffer, debounce gate,       *)
(*                                publish policy, outbound publish         *)
(*                                                                         *)
(* Numbers: the program computes with Python floats.  The model computes   *)
(* with exact rationals <<n, d>> (d > 0, lowest terms), so a comparison    *)
(* is decided as the real numbers decide it; rounding of the last bit of   *)
(* a double is not represented.                                            *)
(***************************************************************************)
EXTENDS Integers, Sequences, FiniteSets, TLC

VARIABLES
    event_buffer,       \* MLEmotionService.event_buffer: session -> list of events
    last_process_time,  \* MLEmotionService.last_process_time: session -> seconds
    last_emotions,      \* MLEmotionService.last_emotions: session -> label or "none"
    last_published,     \* MLEmotionService.last_published: session -> {} or {emotion, confidence}
    pattern_memory,     \* EmotionalIntelligence.pattern_memory: label -> deque of (features, time)
    sessions,           \* EmotionalIntelligence.sessions: session -> feature_history length
    outbox,             \* records handed to nc.publish('EMOTIONS.state', ...), in order
    now,                \* time.time(), whole seconds
    arrived,            \* history: session -> every event received with that sessionId
    nEvents,            \* history: number of events received so far
    payload,            \* history: the payload of the last message received
    trace,              \* history: one step per event handled so far
    fv,                 \* classifier harness: the feature vector under test
    cres,               \* classifier harness: the result of classifying fv
    picked,             \* classifier harness: positions in FeatureOrder raised so far
    loop,               \* the loop of start: subscription queue and handler position
    mem,                \* usage gate: _get_counts_memory._mem, (owner, month) -> item
    gate_clock,         \* usage gate: time.time(), as month and minute of the month
    served              \* history: owner -> month -> responses of the gate, in order

vars == << event_buffer, last_process_time, last_emotions, last_published,
           pattern_memory, sessions, outbox, now, arrived, nEvents, payload,
           trace, fv, cres, picked, loop, mem, gate_clock, served >>

-----------------------------------------------------------------------------
(* Exact rational arithmetic *)

Abs(x) == IF x < 0 THEN -x ELSE x

RECURSIVE Gcd(_, _)
Gcd(a, b) == IF b = 0 THEN a ELSE Gcd(b, a % b)

Rat(n, d) ==
    LET g == Gcd(Abs(n), Abs(d))
        s == IF d < 0 THEN -1 ELSE 1
    IN  << (s * n) \div g, (s * d) \div g >>

R(n) == << n, 1 >>
RAdd(a, b) == Rat(a[1] * b[2] + b[1] * a[2], a[2] * b[2])
RSub(a, b) == Rat(a[1] * b[2] - b[1] * a[2], a[2] * b[2])
RMul(a, b) == Rat(a[1] * b[1], a[2] * b[2])
RDiv(a, b) == Rat(a[1] * b[2], a[2] * b[1])
RLt(a, b) == a[1] * b[2] < b[1] * a[2]
RLe(a, b) == a[1] * b[2] <= b[1] * a[2]
RGt(a, b) == RLt(b, a)
RGe(a, b) == RLe(b, a)
RMin(a, b) == IF RLe(a, b) THEN a ELSE b
RMax(a, b) == IF RGe(a, b) THEN a ELSE b
RAbs(a) == << Abs(a[1]), a[2] >>
Zero == R(0)
One == R(1)

-----------------------------------------------------------------------------
(* Feature vectors: a function from the keys present in the dict to values. *)

BaseKeys ==
    { "session_duration", "event_frequency", "idle_ratio",
      "rage_click_count", "circular_motions", "direction_changes",
      "text_selection", "tab_switch",
      "price_proximity_time", "cta_proximity_time", "form_proximity_time",
      "nav_proximity_time", "exit_signal_strength", "viewport_approaches",
      "unique_event_types", "pattern_complexity", "micro_hesitations",
      "dwell_time_variance", "mouse_exit_after_idle", "price_hover_duration",
      "confident_scroll_rate", "comparison_pattern_strength" }

\* set only when the buffer holds an event whose type contains "mouse"
MouseKeys ==
    { "avg_mouse_velocity", "velocity_variance", "acceleration_spikes",
      "movement_entropy" }

\* set only when the buffer holds an event of type "scroll"
ScrollKeys ==
    { "scroll_depth", "scroll_velocity", "scroll_reversals", "reading_pattern" }

\* defaultdict(float): no key is present
_empty_features == [k \in {} |-> Zero]

\* features.get(name, 0)
FGet(features, name) == IF name \in DOMAIN features THEN features[name] ELSE Zero

-----------------------------------------------------------------------------
(* EmotionalIntelligence: rule table, weights and score map.               *)
(* A score map is a Python dict: a sequence of <<label, score>> in         *)
(* insertion order, each label at most once.                               *)

emotion_rules ==
    << [emotion |-> "frustration", rules |->
           << <<"rage_click_count", R(2)>>, <<"circular_motions", R(3)>>,
              <<"direction_changes", R(8)>>, <<"velocity_variance", R(150)>>,
              <<"acceleration_spikes", R(2)>> >>],
       [emotion |-> "confusion", rules |->
           << <<"pattern_complexity", Rat(1, 2)>>, <<"circular_motions", R(2)>>,
              <<"unique_event_types", R(7)>>, <<"direction_changes", R(5)>> >>],
       [emotion |-> "price_shock", rules |->
           << <<"price_proximity_time", R(1)>>, <<"acceleration_spikes", R(2)>>,
              <<"exit_signal_strength", R(1)>>, <<"price_hover_duration", Rat(3, 10)>>,
              <<"mouse_exit_after_idle", Rat(1, 2)>> >>],
       [emotion |-> "sticker_shock", rules |->
           << <<"price_proximity_time", R(1)>>, <<"viewport_approaches", R(1)>>,
              <<"idle_ratio", Rat(4, 10)>>, <<"price_hover_duration", Rat(1, 2)>> >>],
       [emotion |-> "skeptical", rules |->
           << <<"scroll_reversals", R(2)>>, <<"micro_hesitations", R(3)>>,
              <<"dwell_time_variance", R(50)>>, <<"reading_pattern", Rat(3, 10)>> >>],
       [emotion |-> "evaluation", rules |->
           << <<"reading_pattern", Rat(4, 10)>>, <<"scroll_depth", R(20)>>,
              <<"micro_hesitations", R(2)>>, <<"text_selection", Rat(1, 2)>> >>],
       [emotion |-> "hesitation", rules |->
           << <<"micro_hesitations", R(4)>>, <<"idle_ratio", Rat(25, 100)>>,
              <<"dwell_time_variance", R(30)>>, <<"cta_proximity_time", Rat(1, 2)>> >>],
       [emotion |-> "cart_review", rules |->
           << <<"form_proximity_time", Rat(1, 2)>>, <<"scroll_reversals", R(1)>>,
              <<"cta_proximity_time", R(1)>> >>],
       [emotion |-> "comparison_shopping", rules |->
           << <<"comparison_pattern_strength", Rat(2, 10)>>,
              <<"price_proximity_time", R(1)>>, <<"text_selection", Rat(1, 2)>>,
              <<"tab_switch", Rat(1, 2)>> >>],
       [emotion |-> "cart_hesitation", rules |->
           << <<"form_proximity_time", R(1)>>, <<"micro_hesitations", R(3)>>,
              <<"cta_proximity_time", R(1)>>, <<"idle_ratio", Rat(2, 10)>> >>],
       [emotion |-> "anxiety", rules |->
           << <<"velocity_variance", R(100)>>, <<"direction_changes", R(6)>>,
              <<"micro_hesitations", R(5)>>, <<"pattern_complexity", Rat(4, 10)>> >>],
       [emotion |-> "abandonment_intent", rules |->
           << <<"exit_signal_strength", R(1)>>, <<"viewport_approaches", Rat(1, 2)>>,
              <<"idle_ratio", Rat(3, 10)>>, <<"mouse_exit_after_idle", Rat(3, 10)>> >>],
       [emotion |-> "exit_risk", rules |->
           << <<"mouse_exit_after_idle", Rat(4, 10)>>, <<"viewport_approaches", R(1)>>,
              <<"exit_signal_strength", Rat(3, 2)>> >>],
       [emotion |-> "engagement", rules |->
           << <<"reading_pattern", Rat(3, 10)>>, <<"scroll_depth", R(20)>>,
              <<"session_duration", R(5)>>, <<"confident_scroll_rate", Rat(3, 10)>> >>],
       [emotion |-> "curiosity", rules |->
           << <<"unique_event_types", R(3)>>, <<"pattern_complexity", Rat(2, 10)>>,
              <<"scroll_depth", R(10)>> >>] >>

Emotions == { emotion_rules[i].emotion : i \in 1..Len(emotion_rules) }

\* <<emotion, feature, weight in tenths>>
feature_weights ==
    { <<"price_shock", "price_proximity_time", 20>>,
      <<"price_shock", "price_hover_duration", 15>>,
      <<"price_shock", "acceleration_spikes", 12>>,
      <<"price_shock", "mouse_exit_after_idle", 18>>,
      <<"sticker_shock", "price_proximity_time", 20>>,
      <<"sticker_shock", "price_hover_duration", 18>>,
      <<"sticker_shock", "viewport_approaches", 13>>,
      <<"frustration", "rage_click_count", 20>>,
      <<"frustration", "circular_motions", 15>>,
      <<"frustration", "velocity_variance", 12>>,
      <<"confusion", "pattern_complexity", 18>>,
      <<"confusion", "circular_motions", 15>>,
      <<"confusion", "direction_changes", 13>>,
      <<"skeptical", "scroll_reversals", 18>>,
      <<"skeptical", "micro_hesitations", 15>>,
      <<"skeptical", "reading_pattern", 13>>,
      <<"evaluation", "reading_pattern", 18>>,
      <<"evaluation", "text_selection", 15>>,
      <<"evaluation", "micro_hesitations", 12>>,
      <<"hesitation", "micro_hesitations", 20>>,
      <<"hesitation", "idle_ratio", 15>>,
      <<"hesitation", "cta_proximity_time", 13>>,
      <<"comparison_shopping", "comparison_pattern_strength", 20>>,
      <<"comparison_shopping", "price_proximity_time", 15>>,
      <<"comparison_shopping", "tab_switch", 13>>,
      <<"abandonment_intent", "mouse_exit_after_idle", 20>>,
      <<"abandonment_intent", "exit_signal_strength", 15>>,
      <<"abandonment_intent", "idle_ratio", 13>>,
      <<"exit_risk", "mouse_exit_after_idle", 20>>,
      <<"exit_risk", "viewport_approaches", 18>>,
      <<"exit_risk", "exit_signal_strength", 15>>,
      <<"engagement", "reading_pattern", 18>>,
      <<"engagement", "scroll_depth", 15>>,
      <<"engagement", "confident_scroll_rate", 13>> }

\* the features some rule reads
RuleFeatures ==
    UNION { { emotion_rules[i].rules[j][1] : j \in 1..Len(emotion_rules[i].rules) } :
            i \in 1..Len(emotion_rules) }

\* the weight 1.0 for every rule, the table of feature_weights unread
Weight_Flat == [ e \in Emotions |-> [ f \in RuleFeatures |-> 10 ] ]

\* weights.get(feature_name, 1.0), in tenths, for every emotion and rule feature
Weight ==
    [ e \in Emotions |->
        [ f \in RuleFeatures |->
            LET hit == { w \in feature_weights : w[1] = e /\ w[2] = f }
            IN  IF hit = {} THEN 10 ELSE (CHOOSE w \in hit : TRUE)[3] ] ]

\* emotions.get(label, default)
EGet(em, label, default) ==
    IF \E i \in 1..Len(em) : em[i][1] = label
    THEN em[CHOOSE i \in 1..Len(em) : em[i][1] = label][2]
    ELSE default

\* emotions[label] = v: an existing key keeps its place, a new key goes last
ESet(em, label, v) ==
    IF \E i \in 1..Len(em) : em[i][1] = label
    THEN [i \in 1..Len(em) |-> IF em[i][1] = label THEN <<label, v>> ELSE em[i]]
    ELSE Append(em, <<label, v>>)

\* max(emotions.values()), for a non-empty map
RECURSIVE MaxFrom(_, _, _)
MaxFrom(em, i, best) ==
    IF i > Len(em) THEN best
    ELSE MaxFrom(em, i + 1, IF RGt(em[i][2], best) THEN em[i][2] ELSE best)

MaxScore(em) == MaxFrom(em, 2, em[1][2])

\* the denominator counting the satisfied rules only
AddWeight_Satisfied(total_weight, weight, satisfied) ==
    IF satisfied THEN total_weight + weight ELSE total_weight

\* line 608: total_weight += weight, for every rule whose feature is a key
\* of the dict, satisfied or not
AddWeight(total_weight, weight, satisfied) == total_weight + weight

\* the inner loop of _detect_emotions over one emotion's rules:
\* acc = <<score, total_weight in tenths>>; every rule of the table has
\* max_val None, so only the min_val branch can add to the score
RECURSIVE RuleAcc(_, _, _, _, _)
RuleAcc(features, emotion, rules, i, acc) ==
    IF i > Len(rules) THEN acc
    ELSE LET feature_name == rules[i][1]
             min_val == rules[i][2]
         IN  IF feature_name \in DOMAIN features
             THEN LET value == features[feature_name]
                      weight == Weight[emotion][feature_name]
                      multiplier == RMin(R(2), RDiv(value, min_val))
                  IN  RuleAcc(features, emotion, rules, i + 1,
                              << IF RGe(value, min_val)
                                 THEN RAdd(acc[1], RMul(Rat(weight, 10), multiplier))
                                 ELSE acc[1],
                                 AddWeight(acc[2], weight, RGe(value, min_val)) >>)
             ELSE RuleAcc(features, emotion, rules, i + 1, acc)

\* the quotient without the clamp of line 611
BaseScore_NoClamp(acc) == RDiv(acc[1], Rat(acc[2], 10))

\* line 611: min(1.0, score / total_weight)
BaseScore(acc) == RMin(One, RDiv(acc[1], Rat(acc[2], 10)))

\* the base rule pass: one entry per emotion whose total_weight > 0
RECURSIVE BasePass(_, _, _)
BasePass(features, i, em) ==
    IF i > Len(emotion_rules) THEN em
    ELSE LET row == emotion_rules[i]
             acc == RuleAcc(features, row.emotion, row.rules, 1, << Zero, 0 >>)
         IN  BasePass(features, i + 1,
                      IF acc[2] > 0
                      THEN Append(em, << row.emotion, BaseScore(acc) >>)
                      ELSE em)

\* the override as an assignment: emotions[label] = floor
Floor_Set(em, label, floor) == ESet(em, label, floor)

\* emotions[label] = max(emotions.get(label, 0), floor)
Floor(em, label, floor) == ESet(em, label, RMax(EGet(em, label, Zero), floor))

BoostPrice(features, em) ==
    LET price_signal_strength ==
            RMul(FGet(features, "price_proximity_time"),
                 FGet(features, "acceleration_spikes"))
    IN  IF RGt(price_signal_strength, One)
           /\ RGt(FGet(features, "exit_signal_strength"), Zero)
        THEN Floor(em, "price_shock", Rat(8, 10))
        ELSE IF RGt(FGet(features, "price_hover_duration"), Rat(1, 2))
                /\ RGt(FGet(features, "idle_ratio"), Rat(3, 10))
        THEN Floor(em, "sticker_shock", Rat(7, 10))
        ELSE em

BoostAbandonment(features, em) ==
    IF RGt(FGet(features, "mouse_exit_after_idle"), Rat(3, 10))
    THEN Floor(Floor(em, "abandonment_intent", Rat(75, 100)), "exit_risk", Rat(7, 10))
    ELSE em

BoostHesitation(features, em) ==
    IF RGt(FGet(features, "cta_proximity_time"), Zero)
       /\ RGt(FGet(features, "micro_hesitations"), R(2))
    THEN Floor(em, "hesitation", Rat(6, 10))
    ELSE em

BoostCart(features, em) ==
    IF RGt(FGet(features, "form_proximity_time"), Zero)
       /\ RGt(FGet(features, "idle_ratio"), Rat(15, 100))
    THEN Floor(Floor(em, "cart_hesitation", Rat(6, 10)), "cart_review", Rat(1, 2))
    ELSE em

BoostEngagement(features, em) ==
    IF RGt(FGet(features, "scroll_depth"), R(10))
       \/ RGt(FGet(features, "session_duration"), R(3))
    THEN Floor(em, "engagement", Rat(1, 2))
    ELSE em

\* the fallback taken for an empty map only
Fallback_EmptyOnly(em) ==
    IF em = << >> THEN ESet(em, "curiosity", Rat(6, 10)) ELSE em

\* if not emotions or max(emotions.values()) < 0.4: emotions['curiosity'] = 0.6
Fallback(em) ==
    IF em = << >> \/ RLt(MaxScore(em), Rat(4, 10))
    THEN ESet(em, "curiosity", Rat(6, 10))
    ELSE em

Boosted(features) ==
    BoostEngagement(features,
        BoostCart(features,
            BoostHesitation(features,
                BoostAbandonment(features,
                    BoostPrice(features, BasePass(features, 1, << >>))))))

_detect_emotions(features) == Fallback(Boosted(features))

\* len(self.pattern_memory): the number of labels remembered so far
NumLabels(pm) == Cardinality({ l \in DOMAIN pm : pm[l] # << >> })

\* the body of the try of _detect_anomaly, lines 650-668: "False" below 10
\* labels.  From 10 labels on, every entry p of recent_patterns is a deque
\* of (features, time) tuples, p[0] is a tuple and p[0].values() raises
\* AttributeError: "raise".
AnomalyTry(pm, features) ==
    IF NumLabels(pm) < 10 THEN "False" ELSE "raise"

\* the body of the try of _get_behavior_cluster, lines 675-692: "None" or,
\* by the same expression, "raise"
ClusterTry(pm, features) ==
    IF NumLabels(pm) < 10 THEN "None" ELSE "raise"

\* an except that reports the failure as an anomaly
_detect_anomaly_FailClosed(pm, features) ==
    IF AnomalyTry(pm, features) = "raise" THEN TRUE
    ELSE AnomalyTry(pm, features) = "True"

\* _detect_anomaly: the bare except of lines 669-670 returns False
_detect_anomaly(pm, features) ==
    IF AnomalyTry(pm, features) = "raise" THEN FALSE
    ELSE AnomalyTry(pm, features) = "True"

\* _get_behavior_cluster: the bare except of lines 693-694 returns None
_get_behavior_cluster(pm, features) ==
    IF ClusterTry(pm, features) = "raise" THEN "None"
    ELSE ClusterTry(pm, features)

\* process_session lines 496-498
AnomalyBoost(em, is_anomaly) ==
    IF is_anomaly THEN Floor(em, "confusion", Rat(7, 10)) ELSE em

\* the confidence counting every key of the dict as a feature
_calculate_confidence_AllKeys(features, em) ==
    LET feature_count == Cardinality(DOMAIN features)
        base == RAdd(Rat(1, 2), RMin(RMul(R(feature_count), Rat(2, 100)), Rat(3, 10)))
        withMax == IF em # << >> THEN RAdd(base, RMul(MaxScore(em), Rat(2, 10)))
                   ELSE base
    IN  RMin(withMax, One)

_calculate_confidence(features, em) ==
    LET feature_count ==
            Cardinality({ k \in DOMAIN features : RGt(features[k], Zero) })
        base == RAdd(Rat(1, 2), RMin(RMul(R(feature_count), Rat(2, 100)), Rat(3, 10)))
        withMax == IF em # << >> THEN RAdd(base, RMul(MaxScore(em), Rat(2, 10)))
                   ELSE base
    IN  RMin(withMax, One)

\* the maximum taken from the last of several equal maxima
Dominant_Last(em) ==
    IF em = << >> THEN "curiosity"
    ELSE LET best == MaxScore(em)
         IN  em[CHOOSE i \in 1..Len(em) :
                   /\ em[i][2] = best
                   /\ \A j \in (i + 1)..Len(em) : em[j][2] # best][1]

\* max(emotions.items(), key=lambda x: x[1])[0] if emotions else 'curiosity':
\* Python's max returns the first of several equal maxima in iteration order
Dominant(em) ==
    IF em = << >> THEN "curiosity"
    ELSE LET best == MaxScore(em)
         IN  em[CHOOSE i \in 1..Len(em) :
                   /\ em[i][2] = best
                   /\ \A j \in 1..(i - 1) : em[j][2] # best][1]

\* intervention_map: the tags deployed for an emotion
intervention_map(emotion) ==
    CASE emotion \in { "price_shock", "sticker_shock" } -> { "discount_modal" }
      [] emotion \in { "skeptical", "evaluation" } -> { "trust_badges" }
      [] emotion \in { "hesitation", "cart_review" } -> { "urgency_banner" }
      [] emotion = "comparison_shopping" -> { "social_toast", "comparison_modal" }
      [] emotion \in { "confusion", "frustration" } -> { "help_chat" }
      [] emotion = "cart_hesitation" -> { "value_highlight" }
      [] emotion = "anxiety" -> { "comparison_modal" }
      [] emotion \in { "abandonment_intent", "exit_risk" } -> { "exit_intent" }
      [] OTHER -> {}

\* A list of tags is the function from the tags in it to the number of
\* times each occurs; the order of list(set(...)) is that of a set.
\* The list after the loop of lines 749-753: every emotion above its
\* threshold extends it by its tags
Extended(em) ==
    LET hits == { k \in 1..Len(em) :
                    RGt(em[k][2],
                        IF em[k][1] \in { "abandonment_intent", "exit_risk",
                                          "price_shock" }
                        THEN Rat(4, 10) ELSE Rat(1, 2)) }
    IN  [ tag \in UNION { intervention_map(em[k][1]) : k \in hits } |->
            Cardinality({ k \in hits : tag \in intervention_map(em[k][1]) }) ]

\* the list returned as built
Dedup_Keep(list) == list

\* list(set(recommendations))
Dedup(list) == [ tag \in DOMAIN list |-> 1 ]

\* _get_intervention_recommendations
_get_intervention_recommendations(em) == Dedup(Extended(em))

\* process_session, from the extracted features on
Classify(pm, features) ==
    LET is_anomaly == _detect_anomaly(pm, features)
        emotions == AnomalyBoost(_detect_emotions(features), is_anomaly)
    IN  [ dominant_emotion |-> Dominant(emotions),
          emotion_scores |-> emotions,
          confidence |-> _calculate_confidence(features, emotions),
          is_anomaly |-> is_anomaly,
          behavior_cluster |-> _get_behavior_cluster(pm, features),
          features |-> features,
          recommendations |-> _get_intervention_recommendations(emotions) ]

-----------------------------------------------------------------------------
(* BehavioralFeatureExtractor.                                             *)
(* An event is [type, sessionId, timestamp, duration]: sessionId "" is a   *)
(* missing sessionId, timestamp is a time of whole seconds, duration is    *)
(* data.duration in milliseconds (0 when absent).  The events of the       *)
(* service model carry no other data field (no velocity, acceleration,     *)
(* direction, scrollSpeed, scrollPercentage, element), and their types are *)
(* those of EventTypes; each feature is what the helper computes on such   *)
(* events.                                                                 *)

EventTypes == { "price_proximity", "idle", "mouse_exit" }

\* the types of EventTypes for which 'mouse' in type, 'price' in type
ContainsMouse == { "mouse", "mouse_exit" }
ContainsPrice == { "price_proximity" }

Count(events, types) ==
    Cardinality({ i \in 1..Len(events) : events[i].type \in types })

\* _calculate_duration: max - min of the timestamps
_calculate_duration(events) ==
    LET ts == { events[i].timestamp : i \in 1..Len(events) }
    IN  (CHOOSE t \in ts : \A u \in ts : u <= t)
        - (CHOOSE t \in ts : \A u \in ts : t <= u)

\* the weight _calculate_proximity_time gives the event at DataFrame index i
\* (0-based position in the buffer) of a buffer of n events
RecencyWeight(i, n) == RSub(One, Rat(i, n))

RECURSIVE ProximitySum(_, _, _)
ProximitySum(events, event_type, i) ==
    IF i > Len(events) THEN Zero
    ELSE RAdd(IF events[i].type = event_type
              THEN RecencyWeight(i - 1, Len(events)) ELSE Zero,
              ProximitySum(events, event_type, i + 1))

_calculate_proximity_time(events, event_type) ==
    ProximitySum(events, event_type, 1)

\* _calculate_complexity: distinct windows of three consecutive types
_calculate_complexity(events) ==
    Rat(Cardinality({ << events[i].type, events[i + 1].type, events[i + 2].type >> :
                        i \in 1..(Len(events) - 2) }),
        Len(events))

\* _detect_exit_after_idle: the largest min(idle duration / 1500, 1) over
\* idle events directly followed by mouse_exit, viewport_approach or mouse
\* (the second pattern needs a mouse event with direction and velocity)
RECURSIVE ExitAfterIdle(_, _, _)
ExitAfterIdle(events, i, score) ==
    IF i > Len(events) - 1 THEN score
    ELSE ExitAfterIdle(events, i + 1,
            IF events[i].type = "idle"
               /\ events[i + 1].type \in { "mouse_exit", "viewport_approach", "mouse" }
            THEN RMax(score, RMin(Rat(events[i].duration, 1500), One))
            ELSE score)

_detect_exit_after_idle(events) == ExitAfterIdle(events, 1, Zero)

\* _detect_comparison_behavior: the loop adds 0.5 for each i in
\* 1..len(price_events)-1 with i > 5
_detect_comparison_behavior(events) ==
    LET tabs == Count(events, { "tab_switch" })
        navs == Count(events, { "nav_proximity" })
        prices == Count(events, ContainsPrice)
        revisits == IF prices > 6 THEN prices - 6 ELSE 0
    IN  RMin(Rat(3 * tabs + 2 * navs + 5 * revisits, 10), One)

\* extract_features past the length check of line 42
SessionFeatures(events) ==
    LET n == Len(events)
        session_duration == _calculate_duration(events)
        base ==
          [ k \in BaseKeys |->
            CASE k = "session_duration" -> R(session_duration)
              [] k = "event_frequency" ->
                   Rat(n, IF session_duration > 1 THEN session_duration ELSE 1)
              [] k = "idle_ratio" -> Rat(Count(events, { "idle" }), n)
              [] k = "rage_click_count" -> R(Count(events, { "rage_click" }))
              [] k = "circular_motions" -> R(Count(events, { "circular_motion" }))
              [] k = "direction_changes" -> R(Count(events, { "direction_changes" }))
              [] k = "text_selection" -> R(Count(events, { "text_selection" }))
              [] k = "tab_switch" -> R(Count(events, { "tab_switch" }))
              [] k = "price_proximity_time" ->
                   _calculate_proximity_time(events, "price_proximity")
              [] k = "cta_proximity_time" ->
                   _calculate_proximity_time(events, "cta_proximity")
              [] k = "form_proximity_time" ->
                   _calculate_proximity_time(events, "form_proximity")
              [] k = "nav_proximity_time" ->
                   _calculate_proximity_time(events, "nav_proximity")
              [] k = "exit_signal_strength" ->
                   R(Count(events, { "viewport_approach", "mouse_exit", "tab_switch" }))
              [] k = "viewport_approaches" -> R(Count(events, { "viewport_approach" }))
              [] k = "unique_event_types" ->
                   R(Cardinality({ events[i].type : i \in 1..n }))
              [] k = "pattern_complexity" -> _calculate_complexity(events)
              \* no velocity in the data: no drop below 30% of the previous one
              [] k = "micro_hesitations" -> Zero
              \* no element_hover event
              [] k = "dwell_time_variance" -> Zero
              [] k = "mouse_exit_after_idle" -> _detect_exit_after_idle(events)
              \* no data.element naming a price
              [] k = "price_hover_duration" -> Zero
              \* fewer than 2 scroll events
              [] k = "confident_scroll_rate" -> Zero
              [] k = "comparison_pattern_strength" ->
                   _detect_comparison_behavior(events) ]
        \* mean, std, spikes, entropy of absent velocity/acceleration/direction
        mouse == IF Count(events, ContainsMouse) > 0
                 THEN [ k \in MouseKeys |-> Zero ] ELSE _empty_features
        scroll == IF Count(events, { "scroll" }) > 0
                  THEN [ k \in ScrollKeys |-> Zero ] ELSE _empty_features
    IN  base @@ mouse @@ scroll

\* the length check letting a buffer of two events through
extract_features_two(events) ==
    IF Len(events) < 2 THEN _empty_features ELSE SessionFeatures(events)

extract_features(events) ==
    IF Len(events) < 3 THEN _empty_features ELSE SessionFeatures(events)

\* process_session: extraction and classification of one buffer
process_session(pm, events) == Classify(pm, extract_features(events))

-----------------------------------------------------------------------------
(* Classifier harness: _detect_emotions and process_session are pure in    *)
(* the feature vector, so they are checked over feature vectors: a dict    *)
(* shape, a background value for every key, and up to MaxActive features   *)
(* raised to a level that crosses the thresholds reading them.             *)

MaxActive == 2

\* the dict shapes extract_features can return
FeatureShapes ==
    { {}, BaseKeys, BaseKeys \cup MouseKeys, BaseKeys \cup ScrollKeys,
      BaseKeys \cup MouseKeys \cup ScrollKeys }

\* 0, or a value below every threshold of the rule table
Backgrounds == { Zero, Rat(1, 10) }

FeatureOrder ==
    << "session_duration", "event_frequency", "idle_ratio",
       "avg_mouse_velocity", "velocity_variance", "acceleration_spikes",
       "movement_entropy", "scroll_depth", "scroll_velocity",
       "scroll_reversals", "reading_pattern",
       "rage_click_count", "circular_motions", "direction_changes",
       "text_selection", "tab_switch",
       "price_proximity_time", "cta_proximity_time", "form_proximity_time",
       "nav_proximity_time", "exit_signal_strength", "viewport_approaches",
       "unique_event_types", "pattern_complexity", "micro_hesitations",
       "dwell_time_variance", "mouse_exit_after_idle", "price_hover_duration",
       "confident_scroll_rate", "comparison_pattern_strength" >>

FeatureLevels(k) ==
    CASE k = "rage_click_count" -> { R(5) }
      [] k = "circular_motions" -> { R(3) }
      [] k = "direction_changes" -> { R(8) }
      [] k = "velocity_variance" -> { R(400) }
      [] k = "acceleration_spikes" -> { R(4) }
      [] k = "pattern_complexity" -> { Rat(3, 5) }
      [] k = "unique_event_types" -> { R(7) }
      [] k = "price_proximity_time" -> { R(2) }
      [] k = "exit_signal_strength" -> { R(3) }
      [] k = "price_hover_duration" -> { Rat(3, 5) }
      [] k = "mouse_exit_after_idle" -> { R(1) }
      [] k = "viewport_approaches" -> { R(2) }
      [] k = "idle_ratio" -> { Rat(1, 5), Rat(1, 2) }
      [] k = "scroll_reversals" -> { R(2) }
      [] k = "micro_hesitations" -> { R(3) }
      [] k = "dwell_time_variance" -> { R(50) }
      [] k = "reading_pattern" -> { Rat(1, 2) }
      [] k = "scroll_depth" -> { R(15), R(80) }
      [] k = "text_selection" -> { R(1) }
      [] k = "cta_proximity_time" -> { R(2) }
      [] k = "form_proximity_time" -> { R(2) }
      [] k = "comparison_pattern_strength" -> { Rat(1, 2) }
      [] k = "tab_switch" -> { R(1) }
      [] k = "session_duration" -> { R(4) }
      [] k = "confident_scroll_rate" -> { R(1) }
      [] OTHER -> { R(1) }

-----------------------------------------------------------------------------
(* Usage gate (src/backend/billing/usage_gate.py) with the memory store,   *)
(* USAGE_STORE unset.  A time is [month, minute]: the month bucket of      *)
(* _month_bucket and the minute within it; the minute key of strftime is   *)
(* the pair.  An Optional[int] is a set: {} for None, { n } for n.         *)

MaxRequests == 22
MaxMonth == 2
MaxMinute == 2

Months == 1..MaxMonth

DEFAULT_MONTHLY_LIMITS(plan) == IF plan = "free" THEN { 20 } ELSE {}

PER_MINUTE_CAP(plan) ==
    CASE plan = "free" -> { 30 }
      [] plan = "pro" -> { 120 }
      [] plan = "team" -> { 300 }
      [] plan = "enterprise" -> { 600 }
      [] OTHER -> {}

\* the actors resolve_actor returns for the requests of the model: the
\* free user of the rate-limit test, sent with X-User-Id and X-Plan and
\* without X-Org-Id
Actors == { [user_id |-> "user_free_1", org_id |-> "None", plan |-> "free"] }

Owner(actor) == IF actor.org_id # "None" THEN actor.org_id ELSE actor.user_id

Owners == { Owner(a) : a \in Actors }

_key(actor, month) == << Owner(actor), month >>

\* mem[key] = item
Put(m, key, item) ==
    [ k \in DOMAIN m \cup { key } |-> IF k = key THEN item ELSE m[k] ]

NewItem(minute_key) ==
    [ count |-> 0, minute |-> [bucket |-> minute_key, count |-> 0] ]

\* read_counts, memory branch: << mem, month_count, minute_count >>; a
\* stale minute bucket is reset and the item written back
read_counts(m, actor, t) ==
    LET mkey == << t.month, t.minute >>
        key == _key(actor, t.month)
        item == IF key \in DOMAIN m THEN m[key] ELSE NewItem(mkey)
    IN  IF item.minute.bucket # mkey
        THEN << Put(m, key, [item EXCEPT !.minute = [bucket |-> mkey, count |-> 0]]),
                item.count, 0 >>
        ELSE << m, item.count, item.minute.count >>

\* increment, memory branch: << mem, month_count, minute_count >>
increment(m, actor, t) ==
    LET mkey == << t.month, t.minute >>
        key == _key(actor, t.month)
        item == IF key \in DOMAIN m THEN m[key] ELSE NewItem(mkey)
        rolled == IF item.minute.bucket # mkey
                  THEN [item EXCEPT !.minute = [bucket |-> mkey, count |-> 0]]
                  ELSE item
        bumped == [rolled EXCEPT !.count = @ + 1, !.minute.count = @ + 1]
    IN  << Put(m, key, bumped), bumped.count, bumped.minute.count >>

\* the monthly check admitting the request that reaches the limit
OverLimit_Gt(count, limit) == \E l \in limit : count > l

\* lines 187, 192: limit is not None and count >= limit
OverLimit(count, limit) == \E l \in limit : count >= l

\* UsageGate.enforce for one request of actor at time t (both time.time()
\* reads of the request fall in the same minute): the store it leaves,
\* the status of the response and the month count it saw or wrote.  The
\* scope branch of lines 179-180 rebuilds the same actor.
enforce(m, actor, t) ==
    LET rc == read_counts(m, actor, t)
        minute_cap == PER_MINUTE_CAP(actor.plan)
        monthly_limit == DEFAULT_MONTHLY_LIMITS(actor.plan)
    IN  IF OverLimit(rc[3], minute_cap)
        THEN [mem |-> rc[1], status |-> 429, count_month |-> rc[2]]
        ELSE IF OverLimit(rc[2], monthly_limit)
        THEN [mem |-> rc[1], status |-> 402, count_month |-> rc[2]]
        ELSE LET inc == increment(rc[1], actor, t)
             IN  [mem |-> inc[1], status |-> 200, count_month |-> inc[2]]

GateInit ==
    /\ mem = << >>
    /\ gate_clock = [month |-> 1, minute |-> 1]
    /\ served = [o \in Owners |-> [mo \in Months |-> << >>]]

RECURSIVE SumLen(_, _)
SumLen(f, S) ==
    IF S = {} THEN 0
    ELSE LET x == CHOOSE y \in S : TRUE IN Len(f[x]) + SumLen(f, S \ { x })

\* the number of requests served so far
Requests ==
    LET perOwner == [o \in Owners |-> [i \in 1..SumLen(served[o], Months) |-> 0]]
    IN  SumLen(perOwner, Owners)

-----------------------------------------------------------------------------
(* MLEmotionService state *)

Sessions == { "s1", "s2" }

max_buffer_size == 50
process_debounce == 5
max_memory == 1000

\* last_published[s] before any publish is {}: get('emotion') is None and
\* get('confidence', 0) is 0
EmptyDict == [emotion |-> "None", confidence |-> Zero]

\* the loop of start before the first message: nothing queued on the
\* subscription (sub.messages), no call of process_message suspended
LoopIdle == [ queue |-> << >>, running |-> {} ]

ServiceInit ==
    /\ event_buffer = [s \in Sessions |-> << >>]
    /\ last_process_time = [s \in Sessions |-> 0]
    /\ last_emotions = [s \in Sessions |-> "none"]
    /\ last_published = [s \in Sessions |-> EmptyDict]
    /\ pattern_memory = [l \in Emotions |-> << >>]
    /\ sessions = [s \in Sessions |-> 0]
    /\ outbox = << >>
    \* time.time() counts from 1970: the first check of a session, against
    \* last_process_time 0.0, always finds the debounce interval elapsed
    /\ now = process_debounce
    /\ arrived = [s \in Sessions |-> << >>]
    /\ nEvents = 0
    /\ payload = [parsed |-> TRUE, events |-> << >>]
    /\ trace = << >>
    /\ loop = LoopIdle
    /\ GateInit

serviceVars == << event_buffer, last_process_time, last_emotions, last_published,
                  pattern_memory, sessions, outbox, now, arrived, nEvents, payload,
                  trace >>

harnessVars == << fv, cres, picked >>

loopVars == << loop >>

gateVars == << mem, gate_clock, served >>

-----------------------------------------------------------------------------
(* MLEmotionService.process_message *)

MaxEvents == 3
MaxBatch == 2
MaxClock == 10

\* data.duration of an idle event, in milliseconds
IdleDurations == { 2000 }

\* seconds by which the clock advances between two messages
TickSteps == { 4, 5 }

CriticalTypes == { "price_proximity", "mouse_exit", "viewport_approach", "tab_switch" }
CriticalEmotions ==
    { "price_shock", "sticker_shock", "abandonment_intent", "frustration", "confusion" }

\* what handling an event yields when no cycle runs: result is never assigned
NoResult ==
    [ dominant_emotion |-> "None", emotion_scores |-> << >>, confidence |-> Zero,
      is_anomaly |-> FALSE, behavior_cluster |-> "None",
      features |-> _empty_features, recommendations |-> << >> ]

\* the threshold without the lowering for critical events
MinEvents_Three(buffer) == IF buffer = << >> THEN 3 ELSE 3

\* lines 826-829: has_critical_events and min_events
MinEvents(buffer) ==
    IF \E i \in 1..Len(buffer) : buffer[i].type \in CriticalTypes THEN 2 ELSE 3

\* the gate without the debounce interval
ShouldProcess_NoDebounce(n, min_events, time_since_last) == n >= min_events

\* line 831: the gate of a processing cycle
ShouldProcess(n, min_events, time_since_last) ==
    n >= min_events /\ time_since_last >= process_debounce

\* the chain whose rule (a) asks for a last emotion other than 'none'
ShouldPublish_KnownLast(current_emotion, confidence, last_emotion, last_pub) ==
    IF current_emotion # last_emotion /\ last_emotion # "none" THEN TRUE
    ELSE IF current_emotion = last_pub.emotion
            /\ RGt(RAbs(RSub(confidence, last_pub.confidence)), Rat(10, 100))
    THEN TRUE
    ELSE IF current_emotion \in CriticalEmotions /\ RGt(confidence, Rat(65, 100))
    THEN TRUE
    ELSE IF current_emotion \in { "engagement", "curiosity" } /\ last_emotion = "none"
    THEN TRUE
    ELSE FALSE

\* the chain with rule (c) open to every emotion
ShouldPublish_AnyEmotion(current_emotion, confidence, last_emotion, last_pub) ==
    IF current_emotion # last_emotion THEN TRUE
    ELSE IF current_emotion = last_pub.emotion
            /\ RGt(RAbs(RSub(confidence, last_pub.confidence)), Rat(10, 100))
    THEN TRUE
    ELSE IF RGt(confidence, Rat(65, 100))
    THEN TRUE
    ELSE IF current_emotion \in { "engagement", "curiosity" } /\ last_emotion = "none"
    THEN TRUE
    ELSE FALSE

\* the chain with >= for > in the confidence change
ShouldPublish_Ge(current_emotion, confidence, last_emotion, last_pub) ==
    IF current_emotion # last_emotion THEN TRUE
    ELSE IF current_emotion = last_pub.emotion
            /\ RGe(RAbs(RSub(confidence, last_pub.confidence)), Rat(10, 100))
    THEN TRUE
    ELSE IF current_emotion \in CriticalEmotions /\ RGt(confidence, Rat(65, 100))
    THEN TRUE
    ELSE IF current_emotion \in { "engagement", "curiosity" } /\ last_emotion = "none"
    THEN TRUE
    ELSE FALSE

\* lines 849-863: the if/elif chain that sets should_publish
ShouldPublish(current_emotion, confidence, last_emotion, last_pub) ==
    IF current_emotion # last_emotion THEN TRUE
    ELSE IF current_emotion = last_pub.emotion
            /\ RGt(RAbs(RSub(confidence, last_pub.confidence)), Rat(10, 100))
    THEN TRUE
    ELSE IF current_emotion \in CriticalEmotions /\ RGt(confidence, Rat(65, 100))
    THEN TRUE
    ELSE IF current_emotion \in { "engagement", "curiosity" } /\ last_emotion = "none"
    THEN TRUE
    ELSE FALSE

\* publish_emotion: the record handed to nc.publish
EmotionEvent(sid, result, t) ==
    [ sessionId |-> sid,
      emotion |-> result.dominant_emotion,
      confidence |-> RMul(result.confidence, R(100)),
      ml_scores |-> result.emotion_scores,
      is_anomaly |-> result.is_anomaly,
      behavior_cluster |-> result.behavior_cluster,
      interventions |-> result.recommendations,
      source |-> "ml",
      timestamp |-> t ]

\* the buffer after lines 814-818: append, then keep the last max_buffer_size
Trim(buffer) ==
    IF Len(buffer) > max_buffer_size
    THEN SubSeq(buffer, Len(buffer) - max_buffer_size + 1, Len(buffer))
    ELSE buffer

\* the append to a deque created without maxlen
_remember_pattern_Unbounded(pm, features, emotion, t) ==
    [pm EXCEPT ![emotion] = Append(@, << features, t >>)]

\* _remember_pattern: append to a deque(maxlen=max_memory)
_remember_pattern(pm, features, emotion, t) ==
    LET d == Append(pm[emotion], << features, t >>)
    IN  [pm EXCEPT ![emotion] =
            IF Len(d) > max_memory THEN SubSeq(d, 2, Len(d)) ELSE d]

\* what a step of the history records of the state around it
Snapshot(st) ==
    [ buf |-> st.buf, lpt |-> st.lpt, le |-> st.le, lp |-> st.lp,
      sess |-> st.sess, nOut |-> Len(st.out),
      nPm |-> [l \in Emotions |-> Len(st.pm[l])] ]

\* one entry of the history: the event handled at time t, the state before
\* and after, the result of the cycle if one ran, the decision of the chain,
\* and whether the handling ended in an exception
Step(kind, event, t, st, st2, result, should_publish) ==
    [ kind |-> kind, event |-> event, t |-> t,
      pre |-> Snapshot(st), post |-> Snapshot(st2),
      result |-> result, should_publish |-> should_publish, raised |-> ~st2.ok ]

\* the cycle with last_emotions written before the publish is awaited
Decide_UpdateFirst(st, sid, result, t, publishFails) ==
    LET last_emotion == st.le[sid]
        current_emotion == result.dominant_emotion
        should_publish ==
            ShouldPublish(current_emotion, result.confidence, last_emotion, st.lp[sid])
    IN  IF should_publish /\ publishFails
        THEN [st EXCEPT !.ok = FALSE, !.le[sid] = current_emotion]
        ELSE [st EXCEPT
                !.out = IF should_publish
                        THEN Append(@, EmotionEvent(sid, result, t)) ELSE @,
                !.lp[sid] = IF should_publish
                            THEN [emotion |-> current_emotion,
                                  confidence |-> result.confidence]
                            ELSE @,
                !.le[sid] = current_emotion]

\* lines 844-875 for one processing cycle: the publish decision, the publish
\* (which raises when the transport fails: publishFails), and the update of
\* last_published and last_emotions.  A raise leaves both as they were.
Decide(st, sid, result, t, publishFails) ==
    LET last_emotion == st.le[sid]
        current_emotion == result.dominant_emotion
        should_publish ==
            ShouldPublish(current_emotion, result.confidence, last_emotion, st.lp[sid])
    IN  IF should_publish /\ publishFails
        THEN [st EXCEPT !.ok = FALSE]
        ELSE [st EXCEPT
                !.out = IF should_publish
                        THEN Append(@, EmotionEvent(sid, result, t)) ELSE @,
                !.lp[sid] = IF should_publish
                            THEN [emotion |-> current_emotion,
                                  confidence |-> result.confidence]
                            ELSE @,
                !.le[sid] = IF current_emotion # last_emotion
                            THEN current_emotion ELSE @]

\* event.get('sessionId') of an event without one: "" stands for an absent
\* key or an empty string, "None" for a JSON null; both fail the test of
\* line 810
NoSessionId == { "", "None" }

\* the one element of a singleton set: Only({ e(x) : x \in { v } }) is e(v),
\* with v computed once
Only(S) == CHOOSE x \in S : TRUE

\* a cycle that stamps the last-processed time of every session
RunCycle_Global(st, sid, t) ==
    Only({ << result,
              [st EXCEPT !.lpt = [s \in DOMAIN st.lpt |-> t],
                         !.sess[sid] = @ + 1,
                         !.pm = _remember_pattern(@, result.features,
                                                  result.dominant_emotion, t)] >> :
           result \in { process_session(st.pm, st.buf[sid]) } })

\* lines 832-837: a processing cycle of session sid over its buffer
RunCycle(st, sid, t) ==
    Only({ << result,
              [st EXCEPT !.lpt[sid] = t,
                         !.sess[sid] = @ + 1,
                         !.pm = _remember_pattern(@, result.features,
                                                  result.dominant_emotion, t)] >> :
           result \in { process_session(st.pm, st.buf[sid]) } })

\* the body of the loop of process_message for one event, at time t
HandleEvent(st, event, t, publishFails) ==
    LET sid == event.sessionId
    IN  IF sid \in NoSessionId
        THEN [st EXCEPT !.tr = Append(@, Step("skipped", event, t, st, st,
                                              NoResult, FALSE))]
        ELSE
        LET buffer == Trim(Append(st.buf[sid], event))
            st1 == [st EXCEPT !.buf[sid] = buffer]
            time_since_last == t - st.lpt[sid]
        IN  IF ShouldProcess(Len(buffer), MinEvents(buffer), time_since_last)
            THEN Only({ Only({ [st3 EXCEPT !.tr = Append(@,
                                  Step("cycle", event, t, st, st3, ran[1],
                                       ShouldPublish(ran[1].dominant_emotion,
                                                     ran[1].confidence,
                                                     st.le[sid], st.lp[sid])))] :
                               st3 \in { Decide(ran[2], sid, ran[1], t, publishFails) } }) :
                        ran \in { RunCycle(st1, sid, t) } })
            ELSE [st1 EXCEPT !.tr = Append(@,
                        Step("buffered", event, t, st, st1, NoResult, FALSE))]

\* the loop with the exception caught inside it, event by event
RECURSIVE HandleBatch_Continue(_, _, _, _, _)
HandleBatch_Continue(st, batch, i, t, failAt) ==
    IF i > Len(batch) THEN st
    ELSE Only({ HandleBatch_Continue(st2, batch, i + 1, t, failAt) :
                st2 \in { HandleEvent(st, batch[i], t, failAt = i) } })

\* the loop over the events of one payload; an exception (the outer
\* try/except of process_message) ends it, and what was done stays done
RECURSIVE HandleBatch(_, _, _, _, _)
HandleBatch(st, batch, i, t, failAt) ==
    IF i > Len(batch) \/ ~st.ok THEN st
    ELSE Only({ HandleBatch(st2, batch, i + 1, t, failAt) :
                st2 \in { HandleEvent(st, batch[i], t, failAt = i) } })

\* the events a payload stamped t can carry: any type for the first session,
\* one type for the second, one event without the key sessionId and one
\* whose sessionId is null; only an idle event carries a duration
Events(t) ==
    { [type |-> ty, sessionId |-> sid, timestamp |-> t,
       duration |-> IF ty = "idle" THEN d ELSE 0] :
        ty \in EventTypes, sid \in { "s1" }, d \in IdleDurations }
    \cup { [type |-> "price_proximity", sessionId |-> "s2", timestamp |-> t,
            duration |-> 0],
           [type |-> "idle", sessionId |-> "", timestamp |-> t,
            duration |-> 2000],
           [type |-> "idle", sessionId |-> "None", timestamp |-> t,
            duration |-> 2000] }

\* the batches of k events a payload can carry at time t
Batches(t, k) == [1..k -> Events(t)]

\* a text json.loads rejects, read as the event it was cut from
Truncated(t) ==
    { [type |-> "price_proximity", sessionId |-> "s1", timestamp |-> t,
       duration |-> 0] }

\* the payloads of k events the service can receive at time t: parsed is
\* whether json.loads (line 796) accepts the text
Payloads(t, k) ==
    { [parsed |-> TRUE, events |-> b] : b \in Batches(t, k) }
    \cup (IF k = 1
          THEN { [parsed |-> FALSE, events |-> << e >>] : e \in Truncated(t) }
          ELSE {})

\* the step recorded for a payload that is dropped as a whole
NoEvent(t) == [type |-> "None", sessionId |-> "", timestamp |-> t, duration |-> 0]

\* the types of EventTypes whose name contains 'tab'
ContainsTab == { "tab_switch" }

\* lines 802-806: the debug print slices events[0].get('sessionId', 'unknown')
\* when some type of the batch contains 'price' or 'tab'; None[-4:] raises
\* TypeError
DebugRaises(events) ==
    /\ events # << >>
    /\ events[1].sessionId = "None"
    /\ \E i \in 1..Len(events) : events[i].type \in ContainsPrice \cup ContainsTab

\* the payload read as if json.loads had accepted it
HandlePayload_Lenient(st, p, t, failAt) ==
    IF ~p.parsed
    THEN Only({ [st2 EXCEPT !.tr = Append(st.tr,
                     Step("dropped", NoEvent(t), t, st, st2, NoResult, FALSE))] :
                st2 \in { HandleBatch(st, p.events, 1, t, failAt) } })
    ELSE IF DebugRaises(p.events)
    THEN [st EXCEPT !.tr = Append(@, Step("crashed", NoEvent(t), t, st, st,
                                          NoResult, FALSE))]
    ELSE HandleBatch(st, p.events, 1, t, failAt)

\* the body of process_message: json.loads or the debug print may raise
\* before the loop, and the except of lines 912-913 ends the handling with
\* the state as it was
HandlePayload(st, p, t, failAt) ==
    IF ~p.parsed
    THEN [st EXCEPT !.tr = Append(@, Step("dropped", NoEvent(t), t, st, st,
                                          NoResult, FALSE))]
    ELSE IF DebugRaises(p.events)
    THEN [st EXCEPT !.tr = Append(@, Step("crashed", NoEvent(t), t, st, st,
                                          NoResult, FALSE))]
    ELSE HandleBatch(st, p.events, 1, t, failAt)

\* the service state as one record, with the history so far
StateRecord ==
    [ buf |-> event_buffer, lpt |-> last_process_time, le |-> last_emotions,
      lp |-> last_published, pm |-> pattern_memory, sess |-> sessions,
      out |-> outbox, tr |-> trace, ok |-> TRUE ]

\* process_message on one payload (an unparseable one counts as one event
\* received).  failAt names the event of the batch, if any, at which
\* nc.publish raises.
ProcessMessage ==
    \E k \in 1..MaxBatch :
       /\ nEvents + k <= MaxEvents
       /\ \E p \in Payloads(now, k) : \E failAt \in 0..k :
          \* the state the handler leaves
          /\ \E st \in { HandlePayload(StateRecord, p, now, failAt) } :
                 \* a failAt that raises nothing is the same message as failAt = 0
                 /\ (failAt = 0) = st.ok
                 /\ event_buffer' = st.buf
                 /\ last_process_time' = st.lpt
                 /\ last_emotions' = st.le
                 /\ last_published' = st.lp
                 /\ pattern_memory' = st.pm
                 /\ sessions' = st.sess
                 /\ outbox' = st.out
                 /\ trace' = st.tr
          /\ arrived' = [s \in Sessions |->
                           arrived[s] \o
                           (IF p.parsed
                            THEN SelectSeq(p.events, LAMBDA e : e.sessionId = s)
                            ELSE << >>)]
          /\ nEvents' = nEvents + k
          /\ payload' = p
          /\ UNCHANGED << now, harnessVars, loopVars, gateVars >>

\* time passes between two messages
Tick ==
    /\ \E d \in TickSteps : now + d <= MaxClock /\ now' = now + d
    /\ UNCHANGED << event_buffer, last_process_time, last_emotions, last_published,
                    pattern_memory, sessions, outbox, arrived, nEvents, payload,
                    trace, harnessVars, loopVars, gateVars >>

Init ==
    /\ ServiceInit
    /\ fv = _empty_features
    /\ cres = NoResult
    /\ picked = << >>

Next == ProcessMessage \/ Tick

Spec == Init /\ [][Next]_vars

-----------------------------------------------------------------------------
(* The publish policy, lines 844-875, as a state machine of its own: the   *)
(* state is last_emotions and last_published of one session, the input is *)
(* the classification of a processing cycle, of which the policy reads the *)
(* dominant emotion and the confidence only.  outbox holds what the cycle  *)
(* handed to the transport, trace its one step.                            *)

PolicySessions == { "s1" }

\* confidences, in hundredths, on both sides of 0.65 and of a 0.10 change
Confidences == { Rat(c, 100) : c \in { 60, 65, 66, 70, 72, 85 } }

ResultOf(e, c) == [NoResult EXCEPT !.dominant_emotion = e, !.confidence = c]

\* the event whose handling ran the cycle is not part of the policy's input
CycleEvent(sid, t) ==
    [type |-> "None", sessionId |-> sid, timestamp |-> t, duration |-> 0]

PolicyCycle ==
    \E sid \in PolicySessions : \E e \in Emotions : \E c \in Confidences :
    \E publishFails \in BOOLEAN :
       LET st0 == [StateRecord EXCEPT !.out = << >>, !.tr = << >>]
           result == ResultOf(e, c)
       IN  \E st \in { Decide(st0, sid, result, now, publishFails) } :
              \* a failure of a publish that is not attempted is no input
              /\ publishFails = ~st.ok
              /\ last_emotions' = st.le
              /\ last_published' = st.lp
              /\ outbox' = st.out
              /\ trace' = << Step("cycle", CycleEvent(sid, now), now, st0, st, result,
                                  ShouldPublish(e, c, last_emotions[sid],
                                                last_published[sid])) >>
              /\ UNCHANGED << event_buffer, last_process_time, pattern_memory,
                              sessions, now, arrived, nEvents, payload,
                              harnessVars, loopVars, gateVars >>

NextPolicy == PolicyCycle

SpecPolicy == Init /\ [][NextPolicy]_vars

-----------------------------------------------------------------------------
(* Cycles of one session that follow each other, lines 831-875: the gate   *)
(* of line 831 on a buffer long enough, the stamp of line 832, and the     *)
(* publish decision on a drawn classification, with nc.publish returning   *)
(* or raising.  The session starts before its first publish or after a     *)
(* publish of one of the drawn results.                                    *)

RetryEmotions == { "hesitation", "frustration", "curiosity" }

\* confidences 0.06 and 0.15 apart, on both sides of 0.65
RetryConfidences == { Rat(c, 100) : c \in { 60, 66, 75 } }

InitRetry ==
    /\ event_buffer = [s \in Sessions |-> << >>]
    /\ last_process_time = [s \in Sessions |-> 0]
    /\ \E e \in RetryEmotions \cup { "none" } : \E c \in RetryConfidences :
          /\ last_emotions = [s \in Sessions |-> IF s = "s1" THEN e ELSE "none"]
          /\ last_published =
                [s \in Sessions |->
                    IF s = "s1" /\ e # "none"
                    THEN [emotion |-> e, confidence |-> c] ELSE EmptyDict]
    /\ pattern_memory = [l \in Emotions |-> << >>]
    /\ sessions = [s \in Sessions |-> 0]
    /\ outbox = << >>
    /\ now = process_debounce
    /\ arrived = [s \in Sessions |-> << >>]
    /\ nEvents = 0
    /\ payload = [parsed |-> TRUE, events |-> << >>]
    /\ trace = << >>
    /\ loop = LoopIdle
    /\ GateInit
    /\ fv = _empty_features
    /\ cres = NoResult
    /\ picked = << >>

RetryCycle ==
    /\ ShouldProcess(3, 3, now - last_process_time["s1"])
    /\ \E e \in RetryEmotions : \E c \in RetryConfidences :
       \E publishFails \in BOOLEAN :
       \E st1 \in { [StateRecord EXCEPT !.lpt["s1"] = now, !.sess["s1"] = @ + 1] } :
       \E st \in { Decide(st1, "s1", ResultOf(e, c), now, publishFails) } :
          \* a failure of a publish that is not attempted is no input
          /\ publishFails = ~st.ok
          /\ last_process_time' = st.lpt
          /\ sessions' = st.sess
          /\ last_emotions' = st.le
          /\ last_published' = st.lp
          /\ outbox' = st.out
          /\ trace' = Append(trace,
                             Step("cycle", CycleEvent("s1", now), now, StateRecord,
                                  st, ResultOf(e, c),
                                  ShouldPublish(e, c, last_emotions["s1"],
                                                last_published["s1"])))
    /\ UNCHANGED << event_buffer, pattern_memory, now, arrived, nEvents, payload,
                    harnessVars, loopVars, gateVars >>

NextRetry == RetryCycle \/ Tick

SpecRetry == InitRetry /\ [][NextRetry]_vars

-----------------------------------------------------------------------------
(* Specification of the classifier harness *)

InitClassify ==
    /\ ServiceInit
    /\ picked = << >>
    /\ \E shape \in FeatureShapes : \E bg \in Backgrounds :
          fv = [k \in shape |-> bg]
    /\ cres = Classify(pattern_memory, fv)

\* one more feature, later in FeatureOrder than those raised before, takes a
\* level; the vector is classified
SetFeature ==
    /\ Len(picked) < MaxActive
    /\ \E i \in 1..Len(FeatureOrder) : \E v \in FeatureLevels(FeatureOrder[i]) :
          /\ FeatureOrder[i] \in DOMAIN fv
          /\ i > (IF picked = << >> THEN 0 ELSE picked[Len(picked)])
          /\ fv' = [fv EXCEPT ![FeatureOrder[i]] = v]
          /\ picked' = Append(picked, i)
    /\ cres' = Classify(pattern_memory, fv')
    /\ UNCHANGED << serviceVars, loopVars, gateVars >>

NextClassify == SetFeature

SpecClassify == InitClassify /\ [][NextClassify]_vars

-----------------------------------------------------------------------------
(* Scenario harness: process_session is pure in the buffer it is given, so *)
(* extraction and classification together are checked over buffers built   *)
(* one event at a time, of any of ScenarioTypes and with any of Stamps as  *)
(* timestamp, in any order.  The buffer is that of session s1.             *)

MaxScenario == 5

ScenarioTypes == { "rage_click", "idle" }

\* timestamps, in seconds: the session durations they span lie on both
\* sides of the 3 s of the engagement boost and of the 5 s of its rule
Stamps == { 0, 4, 12 }

ScenarioEvent ==
    /\ Len(event_buffer["s1"]) < MaxScenario
    /\ \E ty \in ScenarioTypes : \E ts \in Stamps :
          event_buffer' =
              [event_buffer EXCEPT !["s1"] =
                  Append(@, [type |-> ty, sessionId |-> "s1", timestamp |-> ts,
                             duration |-> IF ty = "idle" THEN 2000 ELSE 0])]
    /\ \E features \in { extract_features(event_buffer'["s1"]) } :
          /\ fv' = features
          /\ cres' = Classify(pattern_memory, features)
    /\ UNCHANGED << last_process_time, last_emotions, last_published,
                    pattern_memory, sessions, outbox, now, arrived, nEvents,
                    payload, trace, picked, loopVars, gateVars >>

NextScenario == ScenarioEvent

SpecScenario == Init /\ [][NextScenario]_vars

-----------------------------------------------------------------------------
(* Memory harness: process_session against a pattern memory the service    *)
(* has built up.  Init draws the memory from memories the service reaches: *)
(* MemoryAfter(n) is the memory after the cycles of n sessions, one on     *)
(* each of the first n training vectors, computed by process_session       *)
(* itself; FilledMemory(n) is the memory after n cycles on buffers of      *)
(* fewer than 3 events, one a second, each classified curiosity.  Then up  *)
(* to MaxCycles cycles of session s1 run on drawn feature vectors.         *)

MaxCycles == 2

AllKeys == BaseKeys \cup MouseKeys \cup ScrollKeys

\* one raised feature per vector; the twelve vectors have twelve different
\* dominant emotions
Training ==
    << << "event_frequency", R(1) >>, << "session_duration", R(4) >>,
       << "idle_ratio", Rat(1, 2) >>, << "velocity_variance", R(400) >>,
       << "scroll_reversals", R(2) >>, << "rage_click_count", R(5) >>,
       << "circular_motions", R(3) >>, << "text_selection", R(1) >>,
       << "tab_switch", R(1) >>, << "price_proximity_time", R(2) >>,
       << "exit_signal_strength", R(3) >>, << "price_hover_duration", Rat(3, 5) >> >>

TrainingVector(i) ==
    [ k \in AllKeys |-> IF k = Training[i][1] THEN Training[i][2] ELSE Zero ]

RECURSIVE MemoryAfter(_)
MemoryAfter(n) ==
    IF n = 0 THEN [l \in Emotions |-> << >>]
    ELSE Only({ _remember_pattern(pm, v, Classify(pm, v).dominant_emotion, n) :
                pm \in { MemoryAfter(n - 1) }, v \in { TrainingVector(n) } })

FilledMemory(n) ==
    [ l \in Emotions |->
        IF l = "curiosity" THEN [ i \in 1..n |-> << _empty_features, i >> ]
        ELSE << >> ]

Memories ==
    { MemoryAfter(n) : n \in 0..Len(Training) }
    \cup { FilledMemory(n) : n \in { max_memory - 1, max_memory } }

\* the feature vectors of the cycles of s1
MemoryVectors == { _empty_features } \cup { TrainingVector(i) : i \in 1..4 }

InitMemory ==
    /\ event_buffer = [s \in Sessions |-> << >>]
    /\ last_process_time = [s \in Sessions |-> 0]
    /\ last_emotions = [s \in Sessions |-> "none"]
    /\ last_published = [s \in Sessions |-> EmptyDict]
    /\ pattern_memory \in Memories
    /\ sessions = [s \in Sessions |-> 0]
    /\ outbox = << >>
    \* later than every entry of the memory
    /\ now = max_memory + 1
    /\ arrived = [s \in Sessions |-> << >>]
    /\ nEvents = 0
    /\ payload = [parsed |-> TRUE, events |-> << >>]
    /\ trace = << >>
    /\ loop = LoopIdle
    /\ GateInit
    /\ fv = _empty_features
    /\ cres = NoResult
    /\ picked = << >>

\* process_session of session s1 from the extracted features on, a second
\* after the cycle before
MemoryCycle ==
    /\ sessions["s1"] < MaxCycles
    /\ \E features \in MemoryVectors :
       \E result \in { Classify(pattern_memory, features) } :
          /\ fv' = features
          /\ cres' = result
          /\ pattern_memory' = _remember_pattern(pattern_memory, features,
                                                 result.dominant_emotion, now)
    /\ sessions' = [sessions EXCEPT !["s1"] = @ + 1]
    /\ now' = now + 1
    /\ UNCHANGED << event_buffer, last_process_time, last_emotions,
                    last_published, outbox, arrived, nEvents, payload, trace,
                    picked, loopVars, gateVars >>

NextMemory == MemoryCycle

SpecMemory == InitMemory /\ [][NextMemory]_vars

-----------------------------------------------------------------------------
(* Specification of the loop of start, lines 786-791, with the await of    *)
(* process_message made visible.  Messages arrive on the subscription      *)
(* while a call of process_message is suspended in nc.publish (line 929,   *)
(* awaited from line 867); the loop takes the next message when the call   *)
(* has returned.  A cycle that awaits a publish is recorded as two steps,  *)
(* "begin" (lines 832-863) and "end" (lines 867-875, or the raise).        *)

\* the event types sent to the loop
LoopTypes == { "price_proximity", "idle" }

\* the loop starting every handler as a task of its own
LoopFree_Task(l) == TRUE

\* line 789: process_message is awaited, so the next message is taken only
\* when no call is suspended
LoopFree(l) == l.running = {}

\* process_message from event i of the batch on, at time t, up to its end
\* (at = 0) or to the first publish it awaits (at = the event whose cycle
\* awaits): the state then is the one a raise of the publish would leave
RECURSIVE Advance(_, _, _, _)
Advance(st, batch, i, t) ==
    IF i > Len(batch) THEN [st |-> st, at |-> 0]
    ELSE Only({ IF st2.ok
                THEN Advance(st2, batch, i + 1, t)
                ELSE [st |-> [st2 EXCEPT !.ok = TRUE,
                                         !.tr[Len(st2.tr)].kind = "begin",
                                         !.tr[Len(st2.tr)].raised = FALSE],
                      at |-> i] :
                st2 \in { HandleEvent(st, batch[i], t, TRUE) } })

\* the call suspended at event r.at of the batch since time t
Suspended(r, batch, t) ==
    IF r.at = 0 THEN {}
    ELSE { [batch |-> batch, at |-> r.at, t |-> t,
            result |-> r.st.tr[Len(r.st.tr)].result] }

\* the assignments of the handler to the service state
Commit(st) ==
    /\ event_buffer' = st.buf
    /\ last_process_time' = st.lpt
    /\ last_emotions' = st.le
    /\ last_published' = st.lp
    /\ pattern_memory' = st.pm
    /\ sessions' = st.sess
    /\ outbox' = st.out
    /\ trace' = st.tr

\* a message arrives on the subscription
Deliver ==
    \E k \in 1..MaxBatch :
       /\ nEvents + k <= MaxEvents
       /\ \E p \in Payloads(now, k) :
          /\ \A i \in 1..k : p.events[i].type \in LoopTypes
          /\ loop' = [loop EXCEPT !.queue = Append(@, p)]
          /\ arrived' = [s \in Sessions |->
                           arrived[s] \o
                           (IF p.parsed
                            THEN SelectSeq(p.events, LAMBDA e : e.sessionId = s)
                            ELSE << >>)]
          /\ nEvents' = nEvents + k
          /\ payload' = p
       /\ UNCHANGED << event_buffer, last_process_time, last_emotions,
                       last_published, pattern_memory, sessions, outbox, now,
                       trace, harnessVars, gateVars >>

\* the loop takes the next message and runs process_message on it up to its
\* end or its first await
Take ==
    /\ loop.queue # << >>
    /\ LoopFree(loop)
    /\ \E p \in { Head(loop.queue) } :
       \E r \in { IF ~p.parsed \/ DebugRaises(p.events)
                   THEN [st |-> HandlePayload(StateRecord, p, now, 0), at |-> 0]
                   ELSE Advance(StateRecord, p.events, 1, now) } :
          /\ Commit(r.st)
          /\ loop' = [ queue |-> Tail(loop.queue),
                       running |-> loop.running \cup Suspended(r, p.events, now) ]
    /\ UNCHANGED << now, arrived, nEvents, payload, harnessVars, gateVars >>

\* nc.publish returns or raises: lines 868-875 and the rest of the batch,
\* or the except of lines 912-913
Resume ==
    /\ \E h \in loop.running : \E fails \in BOOLEAN :
       \E st3 \in { Decide(StateRecord, h.batch[h.at].sessionId, h.result, h.t, fails) } :
       \E st4 \in { [st3 EXCEPT !.tr = Append(@, Step("end", h.batch[h.at], now,
                                                      StateRecord, st3, h.result,
                                                      TRUE))] } :
       \E r \in { IF st4.ok THEN Advance(st4, h.batch, h.at + 1, now)
                   ELSE [st |-> st4, at |-> 0] } :
          /\ Commit(r.st)
          /\ loop' = [loop EXCEPT !.running =
                          (@ \ { h }) \cup Suspended(r, h.batch, now)]
    /\ UNCHANGED << now, arrived, nEvents, payload, harnessVars, gateVars >>

NextLoop == Deliver \/ Take \/ Resume \/ Tick

SpecLoop == Init /\ [][NextLoop]_vars

-----------------------------------------------------------------------------
(* Specification of the usage gate: requests of the actors, one at a time  *)
(* (enforce has no await between its read and its increment), while the    *)
(* clock moves on to the next minute or the next month.                    *)

Enforce ==
    /\ Requests < MaxRequests
    /\ \E actor \in Actors :
       \E r \in { enforce(mem, actor, gate_clock) } :
          /\ mem' = r.mem
          /\ served' = [served EXCEPT ![Owner(actor)][gate_clock.month] =
                            Append(@, [status |-> r.status,
                                       count_month |-> r.count_month])]
    /\ UNCHANGED << gate_clock, serviceVars, harnessVars, loopVars >>

GateTick ==
    /\ \/ /\ gate_clock.minute < MaxMinute
          /\ gate_clock' = [gate_clock EXCEPT !.minute = @ + 1]
       \/ /\ gate_clock.month < MaxMonth
          /\ gate_clock' = [month |-> gate_clock.month + 1, minute |-> 1]
    /\ UNCHANGED << mem, served, serviceVars, harnessVars, loopVars >>

NextGate == Enforce \/ GateTick

SpecGate == Init /\ [][NextGate]_vars

-----------------------------------------------------------------------------
(* Properties.  A step of the history is read through what it did to the   *)
(* state: a processing cycle ran when the feature history of the session   *)
(* grew, a record was handed to the transport when the outbox grew or the  *)
(* publish raised.                                                         *)

Steps == { trace[i] : i \in 1..Len(trace) }

Ran(step) ==
    LET sid == step.event.sessionId
    IN  sid \in Sessions /\ step.post.sess[sid] = step.pre.sess[sid] + 1

Handed(step) == step.post.nOut = step.pre.nOut + 1 \/ step.raised

\* the four rules of the publish decision, read off the state before the
\* cycle and the classification
RuleA(step) ==
    step.result.dominant_emotion # step.pre.le[step.event.sessionId]

RuleB(step) ==
    LET lp == step.pre.lp[step.event.sessionId]
    IN  /\ step.result.dominant_emotion = lp.emotion
        /\ RGt(RAbs(RSub(step.result.confidence, lp.confidence)), Rat(1, 10))

RuleC(step) ==
    /\ step.result.dominant_emotion \in
          { "price_shock", "sticker_shock", "abandonment_intent", "frustration",
            "confusion" }
    /\ RGt(step.result.confidence, Rat(65, 100))

RuleD(step) ==
    /\ step.result.dominant_emotion \in { "engagement", "curiosity" }
    /\ step.pre.le[step.event.sessionId] = "none"

After70Then72(step) ==
    LET lp == step.pre.lp[step.event.sessionId]
    IN  /\ step.kind = "cycle"
        /\ lp.emotion = step.result.dominant_emotion
        /\ lp.confidence = Rat(70, 100)
        /\ step.result.confidence = Rat(72, 100)

\* C2 as stated: for every emotion E, a cycle classified {E, 0.72} after a
\* publish of {E, 0.70} hands nothing to the transport.
C2_Original ==
    \A step \in Steps : After70Then72(step) => ~Handed(step)

\* C2 as amended: a cycle classified {E, 0.72} after a publish of {E, 0.70}
\* hands nothing to the transport when E is none of price_shock,
\* sticker_shock, abandonment_intent, frustration, confusion, and hands over
\* a record when E is one of them.
C2_SuppressedUnlessCritical ==
    \A step \in Steps :
        After70Then72(step) =>
            (Handed(step) <=>
                step.result.dominant_emotion \in
                    { "price_shock", "sticker_shock", "abandonment_intent",
                      "frustration", "confusion" })

\* a suppressed cycle of a non-critical emotion
C2_Witness ==
    \E step \in Steps :
        /\ After70Then72(step)
        /\ step.result.dominant_emotion = "evaluation"
        /\ ~Handed(step) /\ step.post.lp = step.pre.lp

\* the time of the last processing cycle of session sid before step i of the
\* history, -1 if there is none
LastCycle(i, sid) ==
    LET before == { j \in 1..(i - 1) :
                      trace[j].event.sessionId = sid /\ Ran(trace[j]) }
    IN  IF before = {} THEN -1
        ELSE trace[CHOOSE j \in before : \A k \in before : k <= j].t

\* the gate as C3 states it, for step i of the history
Due(i) ==
    LET step == trace[i]
        sid == step.event.sessionId
        b == step.post.buf[sid]
        threshold ==
            IF \E k \in 1..Len(b) :
                  b[k].type \in { "price_proximity", "mouse_exit",
                                  "viewport_approach", "tab_switch" }
            THEN 2 ELSE 3
        last == LastCycle(i, sid)
    IN  Len(b) >= threshold /\ (last = -1 \/ step.t - last >= 5)

\* C3: when an event with a sessionId is handled it becomes the last event
\* of the buffer of its session, and a processing cycle runs for the session if and
\* only if the buffer then holds at least 2 events (3 without an event of
\* type price_proximity, mouse_exit, viewport_approach or tab_switch) and the
\* last cycle of the session is at least 5 seconds old; otherwise nothing
\* but the buffer changes.
C3_TriggerGate ==
    \A i \in 1..Len(trace) :
        LET step == trace[i]
            sid == step.event.sessionId
        IN  sid \in Sessions =>
              /\ step.post.buf[sid] # << >>
              /\ step.post.buf[sid][Len(step.post.buf[sid])] = step.event
              /\ Ran(step) <=> Due(i)
              /\ ~Ran(step) =>
                    step.post = [step.pre EXCEPT !.buf[sid] = step.post.buf[sid]]

\* a cycle at the threshold of 2, and an event held back by the debounce
\* interval alone
C3_Witness ==
    /\ \E i \in 1..Len(trace) :
          Ran(trace[i]) /\ Len(trace[i].post.buf[trace[i].event.sessionId]) = 2
    /\ \E i \in 1..Len(trace) :
          /\ trace[i].event.sessionId \in Sessions
          /\ ~Ran(trace[i])
          /\ Len(trace[i].post.buf[trace[i].event.sessionId]) >= 3

\* steps i < j are consecutive trigger attempts of one session
Consecutive(i, j) ==
    /\ i < j
    /\ trace[i].event.sessionId \in Sessions
    /\ trace[j].event.sessionId = trace[i].event.sessionId
    /\ \A k \in (i + 1)..(j - 1) :
          trace[k].event.sessionId # trace[i].event.sessionId

\* C4 as stated: of two consecutive trigger attempts of a session less than
\* 5 seconds apart the second runs no cycle and yields the result of the
\* first.
C4_Original ==
    \A i, j \in 1..Len(trace) :
        Consecutive(i, j) /\ trace[j].t - trace[i].t < 5 =>
            ~Ran(trace[j]) /\ trace[j].result = trace[i].result

\* C4 as amended: of two consecutive trigger attempts of a session less than
\* 5 seconds apart, the first of which ran a processing cycle, the second
\* runs no cycle, yields no result and changes nothing but the buffer.
C4_Debounce ==
    \A i, j \in 1..Len(trace) :
        Consecutive(i, j) /\ trace[j].t - trace[i].t < 5 /\ Ran(trace[i]) =>
            /\ ~Ran(trace[j])
            /\ trace[j].result = NoResult
            /\ trace[j].post =
                  [trace[j].pre EXCEPT !.buf[trace[j].event.sessionId] =
                        trace[j].post.buf[trace[j].event.sessionId]]

\* a cycle followed 4 seconds later by an attempt of the same session whose
\* buffer is long enough for a cycle
C4_Witness ==
    \E i, j \in 1..Len(trace) :
        /\ Consecutive(i, j)
        /\ trace[j].t - trace[i].t = 4
        /\ Ran(trace[i]) /\ ~Ran(trace[j])
        /\ Len(trace[j].post.buf[trace[j].event.sessionId]) >= 3

\* the last n elements of a sequence
LastN(seq, n) == SubSeq(seq, Len(seq) - n + 1, Len(seq))

\* C5: every session's buffer holds at most 50 events and equals the most
\* recent min(n, 50) of the n events that arrived for the session, in
\* arrival order.
C5_BufferIsRecent ==
    \A s \in Sessions :
        LET n == Len(arrived[s])
        IN  /\ Len(event_buffer[s]) <= 50
            /\ event_buffer[s] = LastN(arrived[s], IF n < 50 THEN n ELSE 50)

\* the labels that share the maximum of a score map
Tied(em) == { em[i][1] : i \in { k \in 1..Len(em) : em[k][2] = MaxScore(em) } }

\* the labels in the order in which the boost pass writes them
BoostOrder ==
    << "price_shock", "sticker_shock", "abandonment_intent", "exit_risk",
       "hesitation", "cart_hesitation", "cart_review", "engagement" >>

\* the labels whose boost override ran on a feature vector
BoostApplied(features) ==
    LET price == RGt(RMul(FGet(features, "price_proximity_time"),
                          FGet(features, "acceleration_spikes")), One)
                 /\ RGt(FGet(features, "exit_signal_strength"), Zero)
        sticker == ~price /\ RGt(FGet(features, "price_hover_duration"), Rat(1, 2))
                          /\ RGt(FGet(features, "idle_ratio"), Rat(3, 10))
        exit == RGt(FGet(features, "mouse_exit_after_idle"), Rat(3, 10))
        cta == RGt(FGet(features, "cta_proximity_time"), Zero)
               /\ RGt(FGet(features, "micro_hesitations"), R(2))
        form == RGt(FGet(features, "form_proximity_time"), Zero)
                /\ RGt(FGet(features, "idle_ratio"), Rat(15, 100))
        engaged == RGt(FGet(features, "scroll_depth"), R(10))
                   \/ RGt(FGet(features, "session_duration"), R(3))
    IN  (IF price THEN { "price_shock" } ELSE {})
        \cup (IF sticker THEN { "sticker_shock" } ELSE {})
        \cup (IF exit THEN { "abandonment_intent", "exit_risk" } ELSE {})
        \cup (IF cta THEN { "hesitation" } ELSE {})
        \cup (IF form THEN { "cart_hesitation", "cart_review" } ELSE {})
        \cup (IF engaged THEN { "engagement" } ELSE {})

\* the floor each boost override writes
BoostFloor(label) ==
    CASE label = "price_shock" -> Rat(8, 10)
      [] label = "sticker_shock" -> Rat(7, 10)
      [] label = "abandonment_intent" -> Rat(75, 100)
      [] label = "exit_risk" -> Rat(7, 10)
      [] label = "hesitation" -> Rat(6, 10)
      [] label = "cart_hesitation" -> Rat(6, 10)
      [] label = "cart_review" -> Rat(1, 2)
      [] label = "engagement" -> Rat(1, 2)

\* the position of a label in a sequence of labels
IndexIn(seq, label) == CHOOSE i \in 1..Len(seq) : seq[i] = label

RuleOrder == [i \in 1..Len(emotion_rules) |-> emotion_rules[i].emotion]

C7_Fallback ==
    LET em == cres.emotion_scores
        before == Boosted(fv)
    IN  /\ em # << >>
        /\ RGe(MaxScore(em), Rat(4, 10))
        /\ (before = << >> \/ RLt(MaxScore(before), Rat(4, 10))) =>
              /\ EGet(em, "curiosity", Zero) = Rat(6, 10)
              /\ cres.dominant_emotion = "curiosity"

\* a non-empty map with some score above 0 and a maximum below 0.4, turned
\* into a classification of curiosity
C7_Witness ==
    LET before == Boosted(fv)
    IN  /\ before # << >>
        /\ RGt(MaxScore(before), Zero) /\ RLt(MaxScore(before), Rat(4, 10))
        /\ cres.dominant_emotion = "curiosity"
        /\ EGet(cres.emotion_scores, "curiosity", Zero) = Rat(6, 10)

\* every score of a map lies in [0, 1]
InUnit(em) == \A i \in 1..Len(em) : RGe(em[i][2], Zero) /\ RLe(em[i][2], One)

\* C8: for a feature vector without negative values, every score of the
\* classification lies in [0, 1], with and without the anomaly boost.
C8_ScoresInUnit ==
    (\A k \in DOMAIN fv : RGe(fv[k], Zero)) =>
        /\ InUnit(cres.emotion_scores)
        /\ InUnit(AnomalyBoost(cres.emotion_scores, TRUE))

\* a base score cut to 1 by the clamp, next to a score strictly inside (0, 1)
C8_Witness ==
    LET em == cres.emotion_scores
    IN  /\ \E i \in 1..Len(em) : em[i][2] = One
        /\ \E i \in 1..Len(em) : RGt(em[i][2], Zero) /\ RLt(em[i][2], One)

\* the feature vector reads 0 at every key
AllZero(features) ==
    \A k \in BaseKeys \cup MouseKeys \cup ScrollKeys : FGet(features, k) = Zero

Degenerate(result) ==
    /\ AllZero(result.features)
    /\ result.emotion_scores = << << "curiosity", Rat(6, 10) >> >>
    /\ result.dominant_emotion = "curiosity"

\* C9: a buffer of fewer than 3 events gives an all-zero feature vector, the
\* score map {curiosity: 0.6} and the dominant emotion curiosity, in every
\* cycle the service runs on such a buffer and for every buffer it holds.
C9_DegenerateInput ==
    /\ \A step \in Steps :
          Ran(step) /\ Len(step.post.buf[step.event.sessionId]) < 3 =>
              Degenerate(step.result)
    /\ \A s \in Sessions :
          Len(event_buffer[s]) < 3 =>
              Degenerate(process_session(pattern_memory, event_buffer[s]))

\* a cycle on a buffer of 2 events
C9_Witness ==
    \E step \in Steps :
        /\ Ran(step)
        /\ Len(step.post.buf[step.event.sessionId]) = 2
        /\ step.result.dominant_emotion = "curiosity"

\* C10: in a cycle over a buffer of N >= 3 events, of two identical
\* price_proximity events at positions i < j the later one enters
\* price_proximity_time with a strictly larger weight, the weight at
\* (0-based) position i being 1 - i/N.
C10_LaterWeighsMore ==
    \A step \in Steps :
        Ran(step) =>
            LET b == step.post.buf[step.event.sessionId]
                N == Len(b)
            IN  N >= 3 =>
                  \A i, j \in 1..N :
                      i < j /\ b[i].type = "price_proximity" /\ b[j] = b[i] =>
                          RGt(RecencyWeight(j - 1, N), RecencyWeight(i - 1, N))

\* the buffer of session s1 consists of exactly n events of one type
ExactlyOf(n, ty) ==
    /\ Len(event_buffer["s1"]) = n
    /\ \A i \in 1..n : event_buffer["s1"][i].type = ty

\* C11: for a buffer of exactly 5 rage_click events and nothing else,
\* whatever their timestamps, the classification has the dominant emotion
\* frustration and a confidence greater than 0.5.
C11_FrustrationScenario ==
    ExactlyOf(5, "rage_click") =>
        /\ cres.dominant_emotion = "frustration"
        /\ RGt(cres.confidence, Rat(1, 2))

\* five rage clicks spanning 12 seconds: engagement is scored by its rule
\* and its boost, and frustration still leads
C11_Witness ==
    /\ ExactlyOf(5, "rage_click")
    /\ FGet(fv, "session_duration") = R(12)
    /\ RGt(EGet(cres.emotion_scores, "engagement", Zero), Rat(1, 2))
    /\ cres.dominant_emotion = "frustration"

\* the events of the last payload that carry the sessionId s
EventsFor(p, s) == SelectSeq(p.events, LAMBDA e : e.sessionId = s)

\* C12: when a parsed batch holds an event without a sessionId, handling it
\* appends every event of the batch that has a sessionId to the buffer of
\* its session, in order, and considers each for processing (one step of
\* the history per event); the events without a sessionId leave the state
\* as it is.
C12_DroppedAlone ==
    [][ ( /\ nEvents' > nEvents
          /\ payload'.parsed
          /\ \E i \in 1..Len(payload'.events) :
                payload'.events[i].sessionId \notin Sessions )
        => /\ \A s \in Sessions :
                 LET all == event_buffer[s] \o EventsFor(payload', s)
                 IN  event_buffer'[s] =
                        LastN(all, IF Len(all) < 50 THEN Len(all) ELSE 50)
           /\ Len(trace') = Len(trace) + Len(payload'.events)
           /\ \A i \in 1..Len(payload'.events) :
                 LET step == trace'[Len(trace) + i]
                 IN  /\ step.event = payload'.events[i]
                     /\ step.event.sessionId \notin Sessions =>
                            step.kind = "skipped" /\ step.post = step.pre
                     /\ step.event.sessionId \in Sessions =>
                            step.kind \in { "buffered", "cycle" } ]_vars

\* C13: a payload that cannot be parsed is dropped as a whole: its handling
\* is one step that changes no buffer, last emotion, last published record
\* or last-processed time, hands nothing to the transport and ends without
\* an exception leaving process_message, so that the messages that follow
\* are handled.
C13_UnparseableDropped ==
    /\ ~payload.parsed =>
          trace # << >> /\ trace[Len(trace)].kind = "dropped"
    /\ \A step \in Steps :
          step.kind = "dropped" => step.post = step.pre /\ ~step.raised

\* an unparseable payload followed by a message whose event runs a cycle
\* that publishes
C13_Witness ==
    \E i, j \in 1..Len(trace) :
        /\ i < j
        /\ trace[i].kind = "dropped"
        /\ Ran(trace[j])
        /\ trace[j].post.nOut = trace[j].pre.nOut + 1

\* C14: a cycle in which the anomaly or cluster estimator fails (fewer than
\* 10 labels in the memory, or an exception inside it) has is_anomaly false
\* and cluster none, and completes with a classification: a dominant
\* emotion of the rule table, a non-empty score map, and the pattern
\* remembered.
C14_FailOpen ==
    [][ ( /\ sessions'["s1"] = sessions["s1"] + 1
          /\ \/ NumLabels(pattern_memory) < 10
             \/ AnomalyTry(pattern_memory, fv') = "raise"
             \/ ClusterTry(pattern_memory, fv') = "raise" )
        => /\ cres'.is_anomaly = FALSE
           /\ cres'.behavior_cluster = "None"
           /\ cres'.dominant_emotion \in Emotions
           /\ cres'.emotion_scores # << >>
           /\ EGet(cres'.emotion_scores, "confusion", Zero)
                 = EGet(_detect_emotions(fv'), "confusion", Zero)
           /\ Len(pattern_memory'[cres'.dominant_emotion]) >= 1 ]_vars

\* a completed cycle of s1 on a memory of 12 labels, where the estimator
\* raised inside its try
C14_Witness ==
    /\ sessions["s1"] = 1
    /\ NumLabels(pattern_memory) >= 12
    /\ Len(pattern_memory["curiosity"]) = 2
    /\ cres.is_anomaly = FALSE /\ cres.behavior_cluster = "None"
    /\ cres.dominant_emotion = "curiosity"

\* C15: the pattern memory holds at most 1000 entries per emotion label,
\* and a cycle that remembers a pattern under a label holding 1000 entries
\* removes the oldest entry and appends the new one.
C15_BoundedFifo ==
    [][ \A l \in Emotions :
          /\ Len(pattern_memory[l]) <= 1000
          /\ Len(pattern_memory'[l]) <= 1000
          /\ Len(pattern_memory[l]) = 1000 /\ pattern_memory'[l] # pattern_memory[l] =>
                pattern_memory'[l] = Append(Tail(pattern_memory[l]), << fv', now >>) ]_vars

\* two cycles on a full list: the entries of seconds 1 and 2 are gone, the
\* entry of second 3 is the oldest and the newest is the last cycle's
C15_Witness ==
    /\ Len(pattern_memory["curiosity"]) = 1000
    /\ pattern_memory["curiosity"][1][2] = 3
    /\ pattern_memory["curiosity"][1000][2] = now - 1
    /\ pattern_memory["curiosity"][1000][1] = fv

\* mem.get(key)['count'], 0 for an absent key
MonthCount(owner, month) ==
    IF << owner, month >> \in DOMAIN mem THEN mem[<< owner, month >>].count ELSE 0

C17_Mapped(tag) ==
    CASE tag = "discount_modal" -> { "price_shock", "sticker_shock" }
      [] tag = "trust_badges" -> { "skeptical", "evaluation" }
      [] tag = "urgency_banner" -> { "hesitation", "cart_review" }
      [] tag = "social_toast" -> { "comparison_shopping" }
      [] tag = "comparison_modal" -> { "comparison_shopping", "anxiety" }
      [] tag = "help_chat" -> { "confusion", "frustration" }
      [] tag = "value_highlight" -> { "cart_hesitation" }
      [] tag = "exit_intent" -> { "abandonment_intent", "exit_risk" }
      [] OTHER -> {}

C17_Tags ==
    { "discount_modal", "trust_badges", "urgency_banner", "social_toast",
      "comparison_modal", "help_chat", "value_highlight", "exit_intent" }

C17_Above(em, emotion) ==
    \E k \in 1..Len(em) :
        /\ em[k][1] = emotion
        /\ RGt(em[k][2], IF emotion \in { "abandonment_intent", "exit_risk",
                                          "price_shock" }
                         THEN Rat(4, 10) ELSE Rat(1, 2))

C19_LastEmotion ==
    \A step \in Steps :
        Ran(step) =>
            step.post.le[step.event.sessionId] = step.result.dominant_emotion

\* the final score of a label in the classification, 0 when it has none
C20_Final(label) == EGet(cres.emotion_scores, label, Zero)

\* C20: no boost override lowers a score (every emotion scores after the
\* boost pass at least what it scored after the base rule pass), and when a
\* boost condition holds the final score of the boosted emotion is at least
\* its floor: mouse_exit_after_idle > 0.3: abandonment_intent 0.75 and
\* exit_risk 0.7; cta_proximity_time > 0 with micro_hesitations > 2:
\* hesitation 0.6; form_proximity_time > 0 with idle_ratio > 0.15:
\* cart_hesitation 0.6 and cart_review 0.5; scroll_depth > 10 or
\* session_duration > 3: engagement 0.5.
C20_BoostFloors ==
    LET base == BasePass(fv, 1, << >>)
        boosted == Boosted(fv)
    IN  /\ \A i \in 1..Len(base) :
              /\ RGe(EGet(boosted, base[i][1], Zero), base[i][2])
              /\ RGe(C20_Final(base[i][1]), base[i][2])
        /\ RGt(FGet(fv, "mouse_exit_after_idle"), Rat(3, 10)) =>
              /\ RGe(C20_Final("abandonment_intent"), Rat(75, 100))
              /\ RGe(C20_Final("exit_risk"), Rat(7, 10))
        /\ RGt(FGet(fv, "cta_proximity_time"), Zero)
              /\ RGt(FGet(fv, "micro_hesitations"), R(2)) =>
              RGe(C20_Final("hesitation"), Rat(6, 10))
        /\ RGt(FGet(fv, "form_proximity_time"), Zero)
              /\ RGt(FGet(fv, "idle_ratio"), Rat(15, 100)) =>
              /\ RGe(C20_Final("cart_hesitation"), Rat(6, 10))
              /\ RGe(C20_Final("cart_review"), Rat(1, 2))
        /\ RGt(FGet(fv, "scroll_depth"), R(10))
              \/ RGt(FGet(fv, "session_duration"), R(3)) =>
              RGe(C20_Final("engagement"), Rat(1, 2))

\* the exit boost on a vector whose base pass scores exit_risk above the
\* floor of 0.7 and abandonment_intent below 0.75: the first keeps its
\* score, the second is raised to the floor
C20_Witness ==
    LET base == BasePass(fv, 1, << >>)
    IN  /\ RGt(FGet(fv, "mouse_exit_after_idle"), Rat(3, 10))
        /\ RGt(EGet(base, "exit_risk", Zero), Rat(7, 10))
        /\ C20_Final("exit_risk") = EGet(base, "exit_risk", Zero)
        /\ RLt(EGet(base, "abandonment_intent", Zero), Rat(75, 100))
        /\ C20_Final("abandonment_intent") = Rat(75, 100)

\* a is b with some elements left out
RECURSIVE IsSubseq(_, _)
IsSubseq(a, b) ==
    IF a = << >> THEN TRUE
    ELSE IF b = << >> THEN FALSE
    ELSE IF Head(a) = Head(b) THEN IsSubseq(Tail(a), Tail(b))
    ELSE IsSubseq(a, Tail(b))

\* C16: within one session, events are buffered and processed in the order
\* in which they arrived (the events handled so far are events that
\* arrived, in their order; each is appended to the buffer of those handled
\* before it), and no two cycles of the session overlap: after a cycle has
\* begun, the next step of the session is the end of that cycle.
C16_InOrderNoOverlap ==
    \A s \in Sessions :
        LET steps == SelectSeq(trace, LAMBDA x : x.event.sessionId = s)
            handled == SelectSeq(steps, LAMBDA x : x.kind # "end")
            events == [i \in 1..Len(handled) |-> handled[i].event]
        IN  /\ IsSubseq(events, arrived[s])
            /\ event_buffer[s] = events
            /\ \A i \in 1..Len(handled) :
                  /\ handled[i].pre.buf[s] = SubSeq(events, 1, i - 1)
                  /\ handled[i].post.buf[s] = SubSeq(events, 1, i)
            /\ \A i \in 1..Len(steps) :
                  /\ steps[i].kind = "begin" /\ i < Len(steps) =>
                        /\ steps[i + 1].kind = "end"
                        /\ steps[i + 1].event = steps[i].event
                  /\ steps[i].kind = "end" =>
                        i > 1 /\ steps[i - 1].kind = "begin"

\* a cycle of a session awaits its publish while a later message with an
\* event of the same session, sent after the cycle began, waits on the
\* subscription
C16_Witness ==
    \E h \in loop.running :
        /\ loop.queue # << >>
        /\ \E i \in 1..Len(loop.queue[1].events) :
              /\ loop.queue[1].parsed
              /\ loop.queue[1].events[i].sessionId = h.batch[h.at].sessionId
              /\ loop.queue[1].events[i].timestamp > h.t

RECURSIVE C21_Sum(_, _)
C21_Sum(terms, n) == IF n = 0 THEN Zero ELSE RAdd(C21_Sum(terms, n - 1), terms[n])

\* the denominator of a row of the rule table on the vector under test:
\* the weights of all its rules, or of those whose feature the vector has
C21_Denominator(row, all) ==
    C21_Sum([j \in 1..Len(row.rules) |->
                IF all \/ row.rules[j][1] \in DOMAIN fv
                THEN Rat(Weight[row.emotion][row.rules[j][1]], 10) ELSE Zero],
            Len(row.rules))

\* the weighted multipliers of the satisfied rules of a row
C21_Numerator(row) ==
    C21_Sum([j \in 1..Len(row.rules) |->
                IF row.rules[j][1] \in DOMAIN fv
                   /\ RGe(fv[row.rules[j][1]], row.rules[j][2])
                THEN RMul(Rat(Weight[row.emotion][row.rules[j][1]], 10),
                          RMin(R(2), RDiv(fv[row.rules[j][1]], row.rules[j][2])))
                ELSE Zero],
            Len(row.rules))

C21_BaseScores(all) ==
    LET base == BasePass(fv, 1, << >>)
    IN  \A i \in 1..Len(emotion_rules) :
            LET row == emotion_rules[i]
                den == C21_Denominator(row, all)
            IN  IF RGt(den, Zero)
                THEN /\ \E k \in 1..Len(base) : base[k][1] = row.emotion
                     /\ EGet(base, row.emotion, Zero)
                            = RMin(One, RDiv(C21_Numerator(row), den))
                ELSE \A k \in 1..Len(base) : base[k][1] # row.emotion

\* C21 as stated: the denominator of an emotion's base score is the sum of
\* the weights of all rules configured for it, satisfied or not, and the
\* base score is the weighted multipliers of the satisfied rules over that
\* denominator, at most 1.
C21_Original == C21_BaseScores(TRUE)

\* C21 as amended: the denominator is the sum of the weights of the rules
\* configured for the emotion whose feature is a key of the feature
\* vector, satisfied or not; the base score is the weighted multipliers of
\* the satisfied rules over that denominator, at most 1.
C21_PresentRules == C21_BaseScores(FALSE)

\* a vector without the mouse keys on which a rule of frustration is
\* satisfied and another, on a key it has, is not: the score lies
\* strictly between 0 and 1 and the two denominators differ
C21_Witness ==
    LET row == emotion_rules[1]
        score == EGet(BasePass(fv, 1, << >>), "frustration", Zero)
    IN  /\ "rage_click_count" \in DOMAIN fv
        /\ "velocity_variance" \notin DOMAIN fv
        /\ RGe(fv["rage_click_count"], R(2))
        /\ RLt(fv["circular_motions"], R(3))
        /\ RGt(score, Zero) /\ RLt(score, One)
        /\ C21_Denominator(row, TRUE) # C21_Denominator(row, FALSE)

\* the number of features of the classified vector with a value above 0
C22_Count == Cardinality({ k \in DOMAIN cres.features : RGt(cres.features[k], Zero) })

\* C22: the confidence of a classification is 0.5 + min(0.3, 0.02 x the
\* number of features above 0) + 0.2 x the maximum emotion score, at most
\* 1; it lies in [0.5, 1] and the published confidence in [50, 100].
C22_Confidence ==
    LET em == cres.emotion_scores
        published == EmotionEvent("s1", cres, now).confidence
    IN  /\ \E k \in 1..Len(em) :
              /\ \A j \in 1..Len(em) : RLe(em[j][2], em[k][2])
              /\ cres.confidence =
                    RMin(One, RAdd(RAdd(Rat(1, 2),
                                        RMin(Rat(3, 10), RMul(Rat(2, 100), R(C22_Count)))),
                                   RMul(Rat(2, 10), em[k][2])))
        /\ RGe(cres.confidence, Rat(1, 2)) /\ RLe(cres.confidence, One)
        /\ RGe(published, R(50)) /\ RLe(published, R(100))

\* 22 features above 0, so the feature term is held at 0.3, next to a
\* vector entry at 0 and a maximum score below 1: 0.8 + 0.2 x the maximum
C22_Witness ==
    /\ picked # << >>
    /\ C22_Count > 15
    /\ RLt(MaxScore(cres.emotion_scores), One)
    /\ cres.confidence = RAdd(Rat(8, 10), RMul(Rat(2, 10), MaxScore(cres.emotion_scores)))
    /\ EmotionEvent("s1", cres, now).confidence = RMul(cres.confidence, R(100))

\* the remembered patterns in total, over all labels
RECURSIVE C23_Total(_, _)
C23_Total(pm, labels) ==
    IF labels = {} THEN 0
    ELSE LET l == CHOOSE x \in labels : TRUE
         IN  Len(pm[l]) + C23_Total(pm, labels \ { l })

\* the estimators ran on the vector: the guard of lines 651-652 and
\* 675-676 let them pass and neither try body raised
C23_Used(pm, features) ==
    /\ ~(NumLabels(pm) < 10)
    /\ AnomalyTry(pm, features) # "raise"
    /\ ClusterTry(pm, features) # "raise"

\* C23: in a cycle on a memory of at least 10 remembered patterns in
\* total, over all labels, the anomaly and cluster estimators are refit and
\* used on the current vector; with fewer than 10 in total the cycle
\* reports is_anomaly false and cluster none.
C23_EnabledAtTen ==
    [][ sessions'["s1"] = sessions["s1"] + 1
        => IF C23_Total(pattern_memory, DOMAIN pattern_memory) >= 10
           THEN C23_Used(pattern_memory, fv')
           ELSE cres'.is_anomaly = FALSE /\ cres'.behavior_cluster = "None" ]_vars

\* C24: handling an event of a session leaves the buffer, the last
\* emotion, the last published record and the last-processed time of
\* every other session unchanged, and the publish decision of a cycle is
\* the decision of the chain on the session's own state.
C24_SessionFrame ==
    \A step \in Steps :
        LET a == step.event.sessionId
        IN  a \in Sessions =>
              /\ \A b \in Sessions \ { a } :
                    /\ step.post.buf[b] = step.pre.buf[b]
                    /\ step.post.le[b] = step.pre.le[b]
                    /\ step.post.lp[b] = step.pre.lp[b]
                    /\ step.post.lpt[b] = step.pre.lpt[b]
              /\ Ran(step) =>
                    step.should_publish =
                        ShouldPublish(step.result.dominant_emotion,
                                      step.result.confidence,
                                      step.pre.le[a], step.pre.lp[a])

\* an event of s1 handled and buffered after a cycle of s2 had published:
\* s2 has a buffer, a last emotion, a last published record and a
\* last-processed time of its own
C24_Witness ==
    \E i \in 1..Len(trace) : \E j \in (i + 1)..Len(trace) :
        /\ trace[i].event.sessionId = "s2" /\ Ran(trace[i])
        /\ trace[j].event.sessionId = "s1"
        /\ trace[j].post.buf["s1"] # trace[j].pre.buf["s1"]
        /\ Len(trace[j].pre.buf["s2"]) = 2
        /\ trace[j].pre.le["s2"] # "none"
        /\ trace[j].pre.lp["s2"] # EmptyDict
        /\ trace[j].pre.lpt["s2"] > 0

\* C25: inbound ingestion never waits for classification or publish: while
\* a processing cycle of a session is in progress (its publish awaited), a
\* message that has arrived can be taken and its events buffered.
C25_IngestionNeverWaits ==
    loop.running # {} /\ loop.queue # << >> => ENABLED Take

\* C26: a session's last published record is non-empty exactly when its
\* last emotion is not the initial 'none', and then its emotion is the last
\* emotion; the record changes only in a cycle of the session that
\* publishes, where it becomes the emotion and the confidence of the
\* record published (which carries the confidence as a percentage).
C26_LastPublished ==
    /\ \A s \in Sessions :
          /\ last_published[s] # EmptyDict <=> last_emotions[s] # "none"
          /\ last_published[s] # EmptyDict =>
                last_published[s].emotion = last_emotions[s]
    /\ \A step \in Steps : \A s \in Sessions :
          step.post.lp[s] # step.pre.lp[s] =>
              /\ s = step.event.sessionId
              /\ step.should_publish /\ ~step.raised
              /\ step.post.nOut = step.pre.nOut + 1
              /\ step.post.lp[s] = [emotion |-> step.result.dominant_emotion,
                                    confidence |-> step.result.confidence]
              /\ outbox[step.post.nOut].sessionId = s
              /\ outbox[step.post.nOut].emotion = step.post.lp[s].emotion
              /\ outbox[step.post.nOut].confidence
                    = RMul(step.post.lp[s].confidence, R(100))

\* a completed cycle that published nothing: the record of the publish
\* before it stays, with the emotion the cycle found again
C26_Witness ==
    \E step \in Steps :
        LET s == step.event.sessionId
        IN  /\ step.kind = "cycle" /\ ~step.should_publish
            /\ step.pre.lp[s] # EmptyDict
            /\ last_published[s] = step.pre.lp[s]
            /\ last_emotions[s] = step.result.dominant_emotion
            /\ step.result.confidence # last_published[s].confidence

\* C27: the first processing cycle of a session (its last emotion is still
\* the initial 'none') always decides to publish and hands a record to the
\* transport, whatever the dominant emotion and the confidence, by rule
\* (a): 'none' is no emotion label.  So whenever the condition of rule (d)
\* holds, rule (a) has decided already.
C27_FirstCyclePublishes ==
    \A step \in Steps :
        LET s == step.event.sessionId
        IN  step.kind = "cycle" =>
              /\ step.result.dominant_emotion \in Emotions
              /\ "none" \notin Emotions
              /\ Ran(step) /\ step.pre.sess[s] = 0 => step.pre.le[s] = "none"
              /\ step.pre.le[s] = "none" =>
                    /\ step.result.dominant_emotion # step.pre.le[s]
                    /\ step.should_publish
                    /\ Handed(step)

\* a first cycle whose result none of the rules (b), (c), (d) would
\* publish: not engagement nor curiosity, not critical
C27_Witness ==
    \E step \in Steps :
        LET s == step.event.sessionId
        IN  /\ step.kind = "cycle"
            /\ step.pre.le[s] = "none" /\ step.pre.lp[s] = EmptyDict
            /\ step.result.dominant_emotion
                   \notin CriticalEmotions \cup { "engagement", "curiosity" }
            /\ step.post.nOut = step.pre.nOut + 1
            /\ last_emotions[s] = step.result.dominant_emotion

\* C28: a cycle triggered at the lowered threshold, on exactly 2 buffered
\* events one of which is of a critical type, classifies the session as
\* curiosity with score map {curiosity: 0.6}, confidence 0.62, no anomaly
\* and no interventions, and starts the debounce window: the session's
\* last-processed time is the time of the cycle, and no later event of the
\* session within 5 seconds triggers a cycle.
C28_LoweredThreshold ==
    \A i \in 1..Len(trace) :
        LET step == trace[i]
            s == step.event.sessionId
        IN  Ran(step) /\ Len(step.post.buf[s]) = 2 =>
              /\ \E k \in 1..2 : step.post.buf[s][k].type \in CriticalTypes
              /\ step.result.dominant_emotion = "curiosity"
              /\ step.result.emotion_scores = << << "curiosity", Rat(6, 10) >> >>
              /\ step.result.confidence = Rat(62, 100)
              /\ step.result.is_anomaly = FALSE
              /\ DOMAIN step.result.recommendations = {}
              /\ step.post.lpt[s] = step.t
              /\ \A j \in (i + 1)..Len(trace) :
                    trace[j].event.sessionId = s /\ trace[j].t - step.t < 5
                        => ~Ran(trace[j])

\* a cycle on two events, the second of them critical, published as
\* curiosity at 62 percent, and a third event of the session 4 seconds
\* later that is buffered without a cycle
C28_Witness ==
    \E i \in 1..Len(trace) : \E j \in (i + 1)..Len(trace) :
        LET s == trace[i].event.sessionId
        IN  /\ Ran(trace[i]) /\ Len(trace[i].post.buf[s]) = 2
            /\ trace[i].post.buf[s][1].type \notin CriticalTypes
            /\ trace[i].post.nOut = trace[i].pre.nOut + 1
            /\ outbox[trace[i].post.nOut].emotion = "curiosity"
            /\ outbox[trace[i].post.nOut].confidence = R(62)
            /\ trace[j].event.sessionId = s
            /\ trace[j].t = trace[i].t + 4
            /\ trace[j].kind = "buffered"

\* the next cycle of the session of step i, if any
C29_NextCycle(i, j) ==
    /\ j > i
    /\ trace[j].event.sessionId = trace[i].event.sessionId /\ Ran(trace[j])
    /\ \A k \in (i + 1)..(j - 1) :
          ~(trace[k].event.sessionId = trace[i].event.sessionId /\ Ran(trace[k]))

\* a cycle whose publish raised leaves the last emotion and the last
\* published record as they were and the last-processed time at the time
\* of the cycle, so the next cycle comes at least 5 seconds later
C29_FailedCycle(i) ==
    LET step == trace[i]
        s == step.event.sessionId
    IN  /\ step.should_publish
        /\ step.post.le[s] = step.pre.le[s]
        /\ step.post.lp[s] = step.pre.lp[s]
        /\ step.post.nOut = step.pre.nOut
        /\ step.post.lpt[s] = step.t /\ step.post.lpt[s] > step.pre.lpt[s]
        /\ \A j \in 1..Len(trace) :
              C29_NextCycle(i, j) =>
                  /\ trace[j].t - step.t >= 5
                  /\ trace[j].pre.le[s] = step.pre.le[s]
                  /\ trace[j].pre.lp[s] = step.pre.lp[s]

\* C29 as stated: if the publish of a cycle fails, the last emotion and the
\* last published record keep their values while the last-processed time
\* has advanced, and the next cycle that yields the same dominant emotion
\* attempts to publish it again.
C29_Original ==
    \A i \in 1..Len(trace) :
        Ran(trace[i]) /\ trace[i].raised =>
            /\ C29_FailedCycle(i)
            /\ \A j \in 1..Len(trace) :
                  /\ C29_NextCycle(i, j)
                  /\ trace[j].result.dominant_emotion
                        = trace[i].result.dominant_emotion
                  => trace[j].should_publish /\ Handed(trace[j])

\* C29 as amended: the next cycle that yields the same dominant emotion
\* attempts to publish it again when that emotion differs from the kept
\* last emotion or the cycle yields the same confidence as well.
C29_RetryAfterFailure ==
    \A i \in 1..Len(trace) :
        Ran(trace[i]) /\ trace[i].raised =>
            /\ C29_FailedCycle(i)
            /\ \A j \in 1..Len(trace) :
                  /\ C29_NextCycle(i, j)
                  /\ trace[j].result.dominant_emotion
                        = trace[i].result.dominant_emotion
                  /\ \/ trace[i].result.dominant_emotion
                           # trace[i].pre.le[trace[i].event.sessionId]
                     \/ trace[j].result.confidence = trace[i].result.confidence
                  => trace[j].should_publish /\ Handed(trace[j])

\* a changed emotion whose publish raised, found again 5 seconds later
\* with another confidence and published then
C29_Witness ==
    \E i \in 1..Len(trace) : \E j \in 1..Len(trace) :
        /\ Ran(trace[i]) /\ trace[i].raised
        /\ C29_NextCycle(i, j)
        /\ trace[i].pre.le["s1"] \notin { "none", trace[i].result.dominant_emotion }
        /\ trace[j].result.dominant_emotion = trace[i].result.dominant_emotion
        /\ trace[j].result.confidence # trace[i].result.confidence
        /\ trace[j].post.nOut = trace[j].pre.nOut + 1
        /\ trace[j].t = trace[i].t + 5

\* C30: when a cycle's publish raises while a batch is handled, the events
\* of the batch after the one that triggered the cycle are discarded, none
\* of them handled nor appended to a session buffer, and the events up to
\* it stay buffered.
C30_RestDiscarded ==
    [][ LET n == Len(trace') - Len(trace)
            p == payload'
        IN  (\E k \in 1..n : trace'[Len(trace) + k].raised) =>
              /\ n <= Len(p.events)
              /\ \A k \in 1..n :
                    /\ trace'[Len(trace) + k].event = p.events[k]
                    /\ trace'[Len(trace) + k].raised <=> k = n
              /\ \A s \in Sessions :
                    event_buffer'[s] =
                        event_buffer[s] \o
                        SelectSeq(SubSeq(p.events, 1, n), LAMBDA e : e.sessionId = s)
      ]_vars

\* a batch of two events whose first triggered a cycle of s1 with a publish
\* that raised: the event is in s1's buffer, the second event, of s2,
\* arrived and is in no buffer
C30_Witness ==
    /\ Len(payload.events) = 2
    /\ trace # << >>
    /\ trace[Len(trace)].raised
    /\ trace[Len(trace)].event = payload.events[1]
    /\ payload.events[1].sessionId = "s1"
    /\ payload.events[2].sessionId = "s2"
    /\ Len(event_buffer["s1"]) = 2
    /\ Len(arrived["s2"]) = 1 /\ event_buffer["s2"] = << >>

=============================================================================
